---------------------------- MODULE Spec2Model ----------------------------
(***************************************************************************)
(* Draft rotation engines of the MTG draft simulator.                      *)
(*                                                                         *)
(*   Spec    the multiplayer host engine (services/HostDraftManager.ts)    *)
(*           together with the host's "start draft" sequence of App.tsx.   *)
(*   SpecSP  the single-player engine (DraftPick.confirmPick with its      *)
(*           bots, components/SetSelector/SetSelector.tsx).                *)
(*   SpecCopies   the same engine on boosters in which a printing occurs   *)
(*                twice.                                                   *)
(*   SpecTimer    the same engine with the pick timer and the auto-pick    *)
(*                effect of DraftPick.                                     *)
(*   SpecBot      the bot picks of confirmPick (botPick and the colour     *)
(*                preferences) on hands of their own.                      *)
(*   SpecPickN    pickRandomN of services/boosterGenerator.ts.             *)
(*   SpecBooster  generateBooster of services/boosterGenerator.ts.         *)
(*   SpecPicks    safePick, pickRareOrMythic and pickFoilCard of the same   *)
(*                file on pools of their own.                              *)
(*   SpecPool     buildCardPool of services/boosterGenerator.ts.           *)
(*   SpecFullPool generateBooster for draft boosters of pools that fill    *)
(*                every slot from its own bucket.                          *)
(*   SpecList     fetchListCards, the date filter of the bonus sheet.      *)
(*   SpecDraft    generateDraftBoosters and generateBooster as their       *)
(*                callers use them, on the card list fetched for a set.    *)
(*                                                                         *)
(* A card is identified by its Scryfall id (an integer here); the host     *)
(* engine reads no other field of a card.  Array indices are 1-based in    *)
(* the model, so seat i of the source is seat i+1 here; packNumber keeps   *)
(* the source's 0-based value.                                             *)
(***************************************************************************)
EXTENDS Integers, Sequences, FiniteSets, Bags, TLC

(* ----------------------------- bounds --------------------------------- *)
MaxSeats == 3        \* seats the lobby accepts in the model
MaxPacks == 2        \* pack rounds per seat (numberOfPacks)
MaxPackSize == 2     \* cards of a full booster handed to the host engine
NumPrintings == 3    \* distinct card ids a pack round draws from
MaxFreePicks == 1    \* picks of a draft that take another card than the first
NumSetCards == 16    \* printings of the set the single-player boosters draw from
PickTime == 2        \* seconds of the per-pick time budget (pickTimeSeconds)
MaxHand == 2         \* cards of a hand passed to a bot on its own
MaxBotPicks == 2     \* picks of a bot on its own
MaxArr == 3          \* cards of a list passed to pickRandomN
MaxPickN == 4        \* largest count asked of pickRandomN
MaxCards == 2        \* cards of a list passed to generateBooster
MaxDraftPacks == 2   \* numberOfPacks of a generateDraftBoosters call
MaxDraftPlayers == 2 \* numberOfPlayers of a generateDraftBoosters call
MaxPickCards == 3    \* cards of a pool handed to a slot picker on its own
MaxShuffle == 4      \* longest array whose shuffles are all explored
ExtraCards == 1      \* commons and uncommons of a full pool beyond the slots
MaxListNear == 52    \* cards of a bonus sheet released within the window
MaxListFar == 1      \* cards of a bonus sheet released outside of it
MaxPoolCards == 1    \* cards of a list passed to buildCardPool on its own

ListThreshold == 50              \* filtered bonus sheet cards needed to use it
DraftCommons == 10               \* commons of a draft booster
DraftUncommons == 3              \* uncommons of a draft booster
HostId == "h"                    \* peerService.getId() on the host
Guests == {"g1", "g2"}           \* remote peers with an open connection

VARIABLES
    players,         \* HostDraftManager.players
    unopenedPacks,   \* HostDraftManager.unopenedPacks [seat][pack] -> cards
    packNumber,      \* HostDraftManager.packNumber (0-based)
    totalPacks,      \* HostDraftManager.totalPacks
    isDrafting,      \* HostDraftManager.isDrafting
    genFor,          \* App.handleLobbyStart: seats the packs are generated for
    outbox,          \* messages and listener calls issued by the last handler
    completeCount,   \* number of draft_complete broadcasts so far
    last,            \* the request the last handler was invoked with
    freePicks        \* accepted picks so far that took another card than the first

hostVars == <<players, unopenedPacks, packNumber, totalPacks, isDrafting,
              genFor, outbox, completeCount, last, freePicks>>

VARIABLES
    settings,        \* DraftPick props.settings (DraftSettings)
    allBoosters,     \* DraftPick.allBoosters [pack][player] -> cards
    dpPackNumber,    \* DraftPick.packNumber (0-based)
    pickNumber,      \* DraftPick.pickNumber (0-based)
    currentPack,     \* DraftPick.currentPack, the hand of the human seat
    selectedCard,    \* DraftPick.selectedCard (NoCard for null)
    pickedCards,     \* DraftPick.pickedCards
    bots,            \* DraftPick.bots
    botPacks,        \* DraftPick.botPacks, the hands of the bots
    draftPicks,      \* App.draftPicks, set by onComplete
    screen,          \* App.screen: "draft" while DraftPick is mounted
    dpFreePicks,     \* picks of the human so far that took another card than the first
    timeLeft,        \* DraftPick.timeLeft
    timerActive,     \* DraftPick.timerActive
    autoPickTriggered, \* DraftPick.autoPickTriggered
    autoPicked,      \* the last step was the auto-pick effect
    expiredAt        \* <<pack, pick>> the countdown last expired at, <<>> if none pending

timerVars == <<timeLeft, timerActive, autoPickTriggered, autoPicked, expiredAt>>

dpVars == <<settings, allBoosters, dpPackNumber, pickNumber, currentPack,
            selectedCard, pickedCards, bots, botPacks, draftPicks, screen,
            dpFreePicks, timerVars>>

\* one call of the booster generator (services/boosterGenerator.ts)
VARIABLES
    genCall,         \* the function called, "" when none is
    setFetch,        \* fetchSetCards resolves ("cards") or rejects ("throws")
    genArgs,         \* numberOfPacks, numberOfPlayers of generateDraftBoosters
    genCards,        \* the card list (arr, preFetchedCards, the cards fetched)
    genType,         \* boosterType of a generateBooster call, "" otherwise
    genN,            \* n of a pickRandomN call
    genFetch,        \* what became of the bonus sheet fetch of the call
    boosterCards,    \* the value returned by pickRandomN, generateBooster
    roundBoosters,   \* roundBoosters of generateDraftBoosters
    draftBoosters,   \* allBoosters of generateDraftBoosters
    cardPool,        \* the pool returned by buildCardPool
    genDone          \* the call has returned or thrown

genVars == <<genCall, setFetch, genArgs, genCards, genType, genN, genFetch,
             boosterCards, roundBoosters, draftBoosters, cardPool, genDone>>

\* the arguments of a call that is not one of generateDraftBoosters
NoArgs == [numberOfPacks |-> 0, numberOfPlayers |-> 0]

vars == <<hostVars, dpVars, genVars>>

\* the value of cardPool before buildCardPool has returned one
NoPool ==
    [commons |-> <<>>, uncommons |-> <<>>, rares |-> <<>>, mythics |-> <<>>,
     basicLands |-> <<>>, variants |-> <<>>, foilOnly |-> <<>>, all |-> <<>>,
     objects |-> <<>>]

\* no call of the generator is under way
GenIdle ==
    /\ genCall = ""
    /\ setFetch = "cards"
    /\ genArgs = NoArgs
    /\ roundBoosters = <<>>
    /\ draftBoosters = <<>>
    /\ cardPool = NoPool
    /\ genCards = <<>>
    /\ genType = ""
    /\ genN = 0
    /\ genFetch = "none"
    /\ boosterCards = <<>>
    /\ genDone = FALSE

(* ----------------------------- helpers -------------------------------- *)
RemoveAt(s, i) == SubSeq(s, 1, i - 1) \o SubSeq(s, i + 1, Len(s))

\* Array.prototype.findIndex(c => c.id === cardId): first match, 0 if none
FindIndex(hand, cardId) ==
    IF \E i \in 1..Len(hand) : hand[i] = cardId
    THEN CHOOSE i \in 1..Len(hand) :
            /\ hand[i] = cardId
            /\ \A j \in 1..(i - 1) : hand[j] # cardId
    ELSE 0

\* this.players.find(p => p.id === id): first seat with that peer id, 0 if none
FindPlayer(ps, id) ==
    IF \E i \in 1..Len(ps) : ps[i].id = id
    THEN CHOOSE i \in 1..Len(ps) :
            /\ ps[i].id = id
            /\ \A j \in 1..(i - 1) : ps[j].id # id
    ELSE 0

Msg(to, type, payload) == [to |-> to, type |-> type, payload |-> payload]

\* peerService.broadcast: one message to every open connection
Broadcast(type, payload) == Msg("all", type, payload)

\* waitingFor listing every seat
WaitingFor_All(ps) == [i \in 1..Len(ps) |-> ps[i].name]

\* this.players.filter(p => !p.hasPicked).map(p => p.name)
WaitingFor(ps) ==
    LET F[i \in 0..Len(ps)] ==
            IF i = 0 THEN <<>>
            ELSE IF ps[i].hasPicked THEN F[i - 1]
                 ELSE Append(F[i - 1], ps[i].name)
    IN F[Len(ps)]

GetPublicPlayers(ps) ==
    [i \in 1..Len(ps) |->
        [id |-> ps[i].id, name |-> ps[i].name, hasPicked |-> ps[i].hasPicked]]

\* the snapshot built in broadcastState / handleRequestState / getHostState
StateOf(ps, pn, i) ==
    [hand       |-> ps[i].currentHand,
     packNumber |-> pn + 1,
     pickNumber |-> Len(ps[i].picks) + 1,
     waitingFor |-> WaitingFor(ps)]

NewPlayer(id, name) ==
    [id |-> id, name |-> name, picks |-> <<>>, currentHand |-> <<>>,
     hasPicked |-> FALSE, isConnected |-> TRUE]

\* msg.payload.name of a join_request: g1 sends a name, g2 sends none
JoinName(peer) == IF peer = "g1" THEN "Ann" ELSE ""

\* name || `Guest ${conn.peer.substring(0, 4)}`
SeatName(peer, name) == IF name = "" THEN "Guest " \o peer ELSE name

(* --------------------- packs handed to startDraft --------------------- *)
\* id of the k-th card of the pack of column c in round r (both 1-based):
\* the packs of one round draw from the same NumPrintings printings, so the
\* same id occurs in several packs, as with boosters drawn from one pool
CardIdAt(c, r, k) == 10 * r + ((c + k) % NumPrintings) + 1

\* [playerIndex][packIndex] -> cards; column `short' (0 = none, else the
\* first or the second column) got boosters one card smaller than the others
\* (generic fallback booster)
MkPacks(nc, tp, sz, short) ==
    [c \in 1..nc |->
        [r \in 1..tp |->
            [k \in 1..(IF c = short THEN sz - 1 ELSE sz) |-> CardIdAt(c, r, k)]]]

\* card ids a pick request of a peer names (selectedCard.id of the client).
\* A seat that still has to pick names the first card of its hand, its last
\* card while the draft has free picks left, or 0, an id that no hand holds;
\* a seat that has picked repeats a request for a card of its hand; a peer
\* without a seat, or with an empty hand, names 0.
RequestIds(ps, peer, free) ==
    LET s == FindPlayer(ps, peer)
        hand == IF s = 0 THEN <<>> ELSE ps[s].currentHand
    IN IF Len(hand) = 0 THEN {0}
       ELSE IF ps[s].hasPicked THEN {hand[1]}
       ELSE {0, hand[1]} \cup (IF free < MaxFreePicks THEN {hand[Len(hand)]} ELSE {})

\* the request takes a card other than the first of the hand it is served from
IsFreePick(ps, peer, cardId) ==
    LET s == FindPlayer(ps, peer)
    IN /\ s # 0
       /\ ~ps[s].hasPicked
       /\ Len(ps[s].currentHand) > 0
       /\ FindIndex(ps[s].currentHand, cardId) # 0
       /\ cardId # ps[s].currentHand[1]

(* --------------------------- host engine ------------------------------ *)
ListenerCall(type, payload) == Msg(HostId, type, payload)

\* getHostState(): null (no notification) unless the host is a seat
HostStateMsgs(ps, pn, drafting) ==
    LET h == FindPlayer(ps, HostId)
    IN IF h = 0 \/ ~drafting THEN <<>>
       ELSE <<ListenerCall("host_state", StateOf(ps, pn, h))>>

\* broadcastState sending every remote seat the snapshot of the first seat
BroadcastState_FirstSeat(ps, pn, drafting) ==
    LET F[i \in 0..Len(ps)] ==
            IF i = 0 THEN <<>>
            ELSE IF ps[i].id = HostId
                 THEN F[i - 1] \o HostStateMsgs(ps, pn, drafting)
                 ELSE Append(F[i - 1],
                             Msg(ps[i].id, "draft_state", StateOf(ps, pn, 1)))
    IN F[Len(ps)]

\* broadcastState()
BroadcastState(ps, pn, drafting) ==
    LET F[i \in 0..Len(ps)] ==
            IF i = 0 THEN <<>>
            ELSE IF ps[i].id = HostId
                 THEN F[i - 1] \o HostStateMsgs(ps, pn, drafting)
                 ELSE Append(F[i - 1],
                             Msg(ps[i].id, "draft_state", StateOf(ps, pn, i)))
    IN F[Len(ps)]

BroadcastStatus(ps) ==
    <<Broadcast("player_status_update", [waitingFor |-> WaitingFor(ps)])>>

BroadcastLobbyUpdate(ps) ==
    <<Broadcast("lobby_update", [players |-> GetPublicPlayers(ps)]),
      ListenerCall("lobby", [players |-> GetPublicPlayers(ps)])>>

FinishDraft(ps) ==
    <<Broadcast("draft_complete",
                [players |-> [i \in 1..Len(ps) |->
                                 [id |-> ps[i].id, picks |-> ps[i].picks]]])>>

\* openNextPack ending the draft one pack round early
DraftOver_OneEarly(pn, tp) == pn + 1 >= tp

\* openNextPack: the guard that ends the draft
DraftOver(pn, tp) == pn >= tp

\* openNextPack clearing the flags before it tests for the end of the draft
OpenNextPackPlayers_ResetFlags(ps, packs, pn, tp) ==
    IF DraftOver(pn, tp)
    THEN [i \in 1..Len(ps) |-> [ps[i] EXCEPT !.hasPicked = FALSE]]
    ELSE [i \in 1..Len(ps) |->
            [ps[i] EXCEPT
                !.currentHand =
                    IF i <= Len(packs) /\ pn + 1 <= Len(packs[i])
                    THEN packs[i][pn + 1]
                    ELSE <<>>,
                !.hasPicked = FALSE]]

\* openNextPack at pack index pn: the seats after dealing (unchanged when the
\* draft is finished instead)
OpenNextPackPlayers(ps, packs, pn, tp) ==
    IF DraftOver(pn, tp) THEN ps
    ELSE [i \in 1..Len(ps) |->
            [ps[i] EXCEPT
                !.currentHand =
                    IF i <= Len(packs) /\ pn + 1 <= Len(packs[i])
                    THEN packs[i][pn + 1]
                    ELSE <<>>,
                !.hasPicked = FALSE]]

OpenNextPackMsgs(ps, pn, tp) == IF DraftOver(pn, tp) THEN FinishDraft(ps) ELSE <<>>

\* rotatePacks with the same direction on every pack
PassSource_NoFlip(i, n, pn) == ((i - 1 - 1 + n) % n) + 1

\* rotatePacks, pass branch: the source seat of seat i (1-based)
PassSource(i, n, pn) ==
    IF pn % 2 = 0
    THEN ((i - 1 - 1 + n) % n) + 1
    ELSE ((i - 1 + 1) % n) + 1

PassPlayers(ps, pn) ==
    [i \in 1..Len(ps) |->
        [ps[i] EXCEPT !.currentHand = ps[PassSource(i, Len(ps), pn)].currentHand,
                      !.hasPicked = FALSE]]

\* rotatePacks tests the first seat's hand
RoundOver(ps) == Len(ps[1].currentHand) = 0

\* the fields of a HostDraftManager after construction
HostIdle ==
    /\ players = <<>>
    /\ unopenedPacks = <<>>
    /\ packNumber = 0
    /\ totalPacks = 3
    /\ isDrafting = FALSE
    /\ genFor = 0
    /\ outbox = <<>>
    /\ completeCount = 0
    /\ last = [op |-> "init", peer |-> "", cardId |-> 0, copy |-> FALSE]
    /\ freePicks = 0

\* useState null of DraftPick.selectedCard
NoCard == [id |-> 0, rarity |-> "", colors |-> <<>>]

\* the state of App and the useState defaults of DraftPick before a
\* single-player draft is set up
NoDraftPick ==
    /\ settings = [boosterType |-> "", numberOfPacks |-> 0,
                   numberOfPlayers |-> 0, pickTimeSeconds |-> 0]
    /\ allBoosters = <<>>
    /\ dpPackNumber = 0
    /\ pickNumber = 0
    /\ currentPack = <<>>
    /\ selectedCard = NoCard
    /\ pickedCards = <<>>
    /\ bots = <<>>
    /\ botPacks = <<>>
    /\ draftPicks = <<>>
    /\ screen = "home"
    /\ dpFreePicks = 0
    /\ timeLeft = 0
    /\ timerActive = FALSE
    /\ autoPickTriggered = FALSE
    /\ autoPicked = FALSE
    /\ expiredAt = <<>>

Init == HostIdle /\ NoDraftPick /\ GenIdle

\* copy: the message is a copy of one that was delivered before
Req(op, peer, cardId) == [op |-> op, peer |-> peer, cardId |-> cardId, copy |-> FALSE]

\* the host takes the first seat when it opens the room
AddHostPlayer ==
    /\ players = <<>>
    /\ ~isDrafting
    /\ players' = Append(players, NewPlayer(HostId, "Host"))
    /\ outbox' = BroadcastLobbyUpdate(players')
    /\ last' = Req("addHost", HostId, 0)
    /\ UNCHANGED <<unopenedPacks, packNumber, totalPacks, isDrafting, genFor,
                   completeCount, freePicks>>
    /\ UNCHANGED <<dpVars, genVars>>

\* handleJoin without the isDrafting check
HandleJoin_NoGuard(peer) ==
    /\ last' = Req("join", peer, 0)
    /\ Len(players) < MaxSeats
    /\ players' = Append(players, NewPlayer(peer, SeatName(peer, JoinName(peer))))
    /\ outbox' = <<Msg(peer, "room_joined",
                       [playerId |-> peer,
                        players |-> GetPublicPlayers(players')])>>
                 \o BroadcastLobbyUpdate(players')
    /\ UNCHANGED <<unopenedPacks, packNumber, totalPacks, isDrafting, genFor,
                   completeCount, freePicks>>
    /\ UNCHANGED <<dpVars, genVars>>

HandleJoin(peer) ==
    /\ last' = Req("join", peer, 0)
    /\ IF isDrafting
       THEN /\ outbox' = <<Msg(peer, "error", [message |-> "Draft already started"])>>
            /\ UNCHANGED players
       ELSE /\ Len(players) < MaxSeats
            /\ players' = Append(players, NewPlayer(peer, SeatName(peer, JoinName(peer))))
            /\ outbox' = <<Msg(peer, "room_joined",
                               [playerId |-> peer,
                                players |-> GetPublicPlayers(players')])>>
                         \o BroadcastLobbyUpdate(players')
    /\ UNCHANGED <<unopenedPacks, packNumber, totalPacks, isDrafting, genFor,
                   completeCount, freePicks>>
    /\ UNCHANGED <<dpVars, genVars>>

\* App.handleLobbyStart up to the await: the seat count is read, the packs
\* are generated asynchronously for that many seats
HandleLobbyStart ==
    /\ ~isDrafting
    /\ genFor = 0
    /\ Len(players) >= 1
    /\ genFor' = Len(players)
    /\ outbox' = <<>>
    /\ last' = Req("lobbyStart", HostId, 0)
    /\ UNCHANGED <<players, unopenedPacks, packNumber, totalPacks, isDrafting,
                   completeCount, freePicks>>
    /\ UNCHANGED <<dpVars, genVars>>

\* App.handleLobbyStart after the await, and HostDraftManager.startDraft
StartDraft(tp, sz, short) ==
    /\ ~isDrafting
    /\ genFor > 0
    /\ LET allPacks == MkPacks(genFor, tp, sz, short)
           tot == Len(allPacks[1])
           ps == OpenNextPackPlayers(players, allPacks, 0, tot)
       IN /\ unopenedPacks' = allPacks
          /\ totalPacks' = tot
          /\ isDrafting' = TRUE
          /\ packNumber' = 0
          /\ players' = ps
          /\ outbox' = OpenNextPackMsgs(players, 0, tot)
                       \o <<Broadcast("draft_started",
                                      [totalPacks |-> tot,
                                       players |-> GetPublicPlayers(ps)])>>
                       \o BroadcastState(ps, 0, TRUE)
          /\ completeCount' = completeCount + Len(OpenNextPackMsgs(players, 0, tot))
    /\ last' = Req("startDraft", HostId, 0)
    /\ UNCHANGED <<genFor, freePicks>>
    /\ UNCHANGED <<dpVars, genVars>>

\* the rotation check passing as soon as one seat has picked
EveryPicked_Some(ps) == \E i \in 1..Len(ps) : ps[i].hasPicked

\* processPick: this.players.every(p => p.hasPicked)
EveryPicked(ps) == \A i \in 1..Len(ps) : ps[i].hasPicked

\* processPick without the hasPicked guard
PickRejected_NoFlagGuard(player, cardIndex) == cardIndex = 0

\* processPick: the two early returns
PickRejected(player, cardIndex) == player.hasPicked \/ cardIndex = 0

\* processPick(player, cardId) for the seat at index s
ProcessPick(s, cardId) ==
    LET player == players[s]
        cardIndex == FindIndex(player.currentHand, cardId)
    IN IF PickRejected(player, cardIndex)
       THEN /\ outbox' = <<>>
            /\ UNCHANGED <<players, packNumber, completeCount>>
       ELSE LET card == player.currentHand[cardIndex]
                picked == [players EXCEPT
                             ![s].currentHand = RemoveAt(player.currentHand, cardIndex),
                             ![s].picks = Append(player.picks, card),
                             ![s].hasPicked = TRUE]
                confirm == IF player.id # HostId
                           THEN <<Msg(player.id, "pick_confirmed", [card |-> card])>>
                           ELSE <<>>
            IN IF EveryPicked(picked)
               THEN \* rotatePacks
                    IF RoundOver(picked)
                    THEN /\ packNumber' = packNumber + 1
                         /\ players' = OpenNextPackPlayers(picked, unopenedPacks,
                                                           packNumber + 1, totalPacks)
                         /\ outbox' = confirm
                                \o OpenNextPackMsgs(picked, packNumber + 1, totalPacks)
                                \o BroadcastState(players', packNumber', isDrafting)
                         /\ completeCount' = completeCount
                                + Len(OpenNextPackMsgs(picked, packNumber + 1, totalPacks))
                    ELSE /\ players' = PassPlayers(picked, packNumber)
                         /\ outbox' = confirm
                                \o BroadcastState(players', packNumber, isDrafting)
                         /\ UNCHANGED <<packNumber, completeCount>>
               ELSE /\ players' = picked
                    /\ outbox' = confirm \o BroadcastStatus(picked)
                    /\ UNCHANGED <<packNumber, completeCount>>

\* handleHostPick(cardId)
HandleHostPick(cardId) ==
    /\ last' = Req("pick", HostId, cardId)
    /\ freePicks' = freePicks + (IF IsFreePick(players, HostId, cardId) THEN 1 ELSE 0)
    /\ LET s == FindPlayer(players, HostId)
       IN IF s # 0 THEN ProcessPick(s, cardId)
          ELSE /\ outbox' = <<>>
               /\ UNCHANGED <<players, packNumber, completeCount>>
    /\ UNCHANGED <<unopenedPacks, totalPacks, isDrafting, genFor>>
    /\ UNCHANGED <<dpVars, genVars>>

\* handlePick(msg, conn) for a make_pick message of a remote peer
HandlePickMsg(peer, cardId, copy) ==
    /\ last' = [Req("pick", peer, cardId) EXCEPT !.copy = copy]
    /\ freePicks' = freePicks + (IF IsFreePick(players, peer, cardId) THEN 1 ELSE 0)
    /\ LET s == FindPlayer(players, peer)
       IN IF s # 0 THEN ProcessPick(s, cardId)
          ELSE /\ outbox' = <<>>
               /\ UNCHANGED <<players, packNumber, completeCount>>
    /\ UNCHANGED <<unopenedPacks, totalPacks, isDrafting, genFor>>
    /\ UNCHANGED <<dpVars, genVars>>

\* handleRequestState answering with the snapshot of the first seat
HandleRequestState_FirstSeat(peer) ==
    /\ last' = Req("requestState", peer, 0)
    /\ LET s == FindPlayer(players, peer)
       IN outbox' = IF s # 0
                    THEN <<Msg(players[s].id, "draft_state",
                               StateOf(players, packNumber, 1))>>
                    ELSE <<>>
    /\ UNCHANGED <<players, unopenedPacks, packNumber, totalPacks, isDrafting,
                   genFor, completeCount, freePicks>>
    /\ UNCHANGED <<dpVars, genVars>>

\* handleRequestState(conn)
HandleRequestState(peer) ==
    /\ last' = Req("requestState", peer, 0)
    /\ LET s == FindPlayer(players, peer)
       IN outbox' = IF s # 0
                    THEN <<Msg(players[s].id, "draft_state",
                               StateOf(players, packNumber, s))>>
                    ELSE <<>>
    /\ UNCHANGED <<players, unopenedPacks, packNumber, totalPacks, isDrafting,
                   genFor, completeCount, freePicks>>
    /\ UNCHANGED <<dpVars, genVars>>

\* a make_pick message of a remote peer, delivered for the first time
HandlePick(peer, cardId) == HandlePickMsg(peer, cardId, FALSE)

\* the make_pick message the last pick of the peer's seat was made with is
\* delivered once more: at once, or late, after other messages
HandlePickCopy(peer) ==
    LET s == FindPlayer(players, peer)
    IN /\ s # 0
       /\ Len(players[s].picks) > 0
       /\ ~DraftOver(packNumber, totalPacks)
       /\ HandlePickMsg(peer, players[s].picks[Len(players[s].picks)], TRUE)

Next ==
    \/ AddHostPlayer
    \/ \E peer \in Guests :
          /\ players # <<>>
          /\ (peer = "g2" => FindPlayer(players, "g1") # 0)  \* g1 connects first
          /\ HandleJoin(peer)
    \/ HandleLobbyStart
    \/ \E tp \in 1..MaxPacks, sz \in 1..MaxPackSize, short \in 0..2 :
          /\ short <= genFor
          /\ (short = 0 \/ sz >= 2)        \* no booster is empty
          /\ StartDraft(tp, sz, short)
    \/ \E cardId \in RequestIds(players, HostId, freePicks) : HandleHostPick(cardId)
    \/ \E peer \in Guests :
          \E cardId \in RequestIds(players, peer, freePicks) : HandlePick(peer, cardId)
    \/ \E peer \in Guests : HandlePickCopy(peer)
    \/ \E peer \in Guests : HandleRequestState(peer)

Spec == Init /\ [][Next]_vars

(* ======================= single-player engine ========================= *)
NumberOfPlayers == 4             \* the smallest entry of PLAYER_OPTIONS
NoTimer == 0                     \* TIMER_OPTIONS 'No Timer'
BoosterTypes == {"play", "draft", "set"}

\* DraftSetup: cards of a booster of the type, as shown to the player
CardsPerPack(boosterType) ==
    IF boosterType = "play" THEN 14
    ELSE IF boosterType = "draft" THEN 15
    ELSE 12

\* confirmPick: packSize
DPPackSize(boosterType) ==
    IF boosterType = "play" THEN 14
    ELSE IF boosterType = "set" THEN 12
    ELSE 15

\* the printing with collector number n of the set the boosters draw from
SetCard(n) ==
    [id     |-> n,
     rarity |-> IF n % 5 = 0 THEN "mythic"
                ELSE IF n % 5 = 1 THEN "rare"
                ELSE IF n % 5 = 2 THEN "uncommon"
                ELSE "common",
     colors |-> IF n % 4 = 0 THEN <<>>
                ELSE IF n % 4 = 1 THEN <<"G">>
                ELSE IF n % 4 = 2 THEN <<"U">>
                ELSE <<"G", "U">>]

\* generateDraftBoosters(setCode, boosterType, numberOfPacks, numberOfPlayers)
\* as [pack][player] -> cards: every booster is full size and holds distinct
\* cards, the boosters of a round overlap
GenerateDraftBoosters(boosterType, numberOfPacks, numberOfPlayers) ==
    [pk \in 1..numberOfPacks |->
        [pl \in 1..numberOfPlayers |->
            [k \in 1..CardsPerPack(boosterType) |->
                SetCard(((4 * pl + 7 * pk + k) % NumSetCards) + 1)]]]

\* pack.filter(c => c.id !== card.id)
FilterOutId(pack, id) == SelectSeq(pack, LAMBDA c : c.id # id)

\* rarityOrder[rarity], -1 for undefined
RarityOrder(rarity) ==
    CASE rarity = "mythic"   -> 0
      [] rarity = "rare"     -> 1
      [] rarity = "uncommon" -> 2
      [] rarity = "common"   -> 3
      [] rarity = "special"  -> 1
      [] rarity = "bonus"    -> 2
      [] OTHER               -> -1

\* (rarityOrder[rarity] || 4): undefined and 0 are falsy
RarityKey(rarity) ==
    IF RarityOrder(rarity) = -1 \/ RarityOrder(rarity) = 0 THEN 4
    ELSE RarityOrder(rarity)

\* [...pack].sort by RarityKey; Array.prototype.sort is stable
SortByRarity(pack) ==
    LET F[r \in 0..4] ==
            IF r = 0 THEN <<>>
            ELSE F[r - 1] \o SelectSeq(pack, LAMBDA c : RarityKey(c.rarity) = r)
    IN F[4]

\* card.colors?.some(c => bot.colorPreferences.includes(c))
OnColor(card, colorPreferences) ==
    \E i \in 1..Len(card.colors) :
        \E j \in 1..Len(colorPreferences) : card.colors[i] = colorPreferences[j]

\* botPick(pack, bot)
BotPick(pack, bot) ==
    LET sorted == SortByRarity(pack)
        onColorCards == SelectSeq(sorted, LAMBDA c : OnColor(c, bot.colorPreferences))
    IN IF Len(bot.colorPreferences) > 0 /\ Len(onColorCards) > 0
       THEN onColorCards[1]
       ELSE sorted[1]

\* AddColors replacing the preferences by the colours of the pick
AddColors_Overwrite(colorPreferences, colors) == colors

\* confirmPick: colours of the pick pushed to colorPreferences unless included
AddColors(colorPreferences, colors) ==
    LET F[i \in 0..Len(colors)] ==
            IF i = 0 THEN colorPreferences
            ELSE IF \E j \in 1..Len(F[i - 1]) : F[i - 1][j] = colors[i]
                 THEN F[i - 1]
                 ELSE Append(F[i - 1], colors[i])
    IN F[Len(colors)]

\* initializeDraft: the bots created for seats 1 .. numberOfPlayers - 1
NewBots(numberOfPlayers) ==
    [i \in 1..(numberOfPlayers - 1) |->
        [id |-> i, colorPreferences |-> <<>>, pickedCards |-> <<>>]]

\* DraftPick mounted by App with the settings of DraftSetup, after
\* initializeDraft has set up the first pack
InitializeDraft(boosterType, numberOfPacks, pickTimeSeconds) ==
    /\ settings = [boosterType |-> boosterType,
                   numberOfPacks |-> numberOfPacks,
                   numberOfPlayers |-> NumberOfPlayers,
                   pickTimeSeconds |-> pickTimeSeconds]
    /\ allBoosters = GenerateDraftBoosters(boosterType, numberOfPacks,
                                           NumberOfPlayers)
    /\ dpPackNumber = 0
    /\ pickNumber = 0
    /\ currentPack = allBoosters[1][1]
    /\ selectedCard = NoCard
    /\ pickedCards = <<>>
    /\ bots = NewBots(NumberOfPlayers)
    /\ botPacks = Tail(allBoosters[1])
    /\ draftPicks = <<>>
    /\ screen = "draft"
    /\ dpFreePicks = 0
    /\ timeLeft = pickTimeSeconds
    /\ timerActive = (pickTimeSeconds > 0)
    /\ autoPickTriggered = FALSE
    /\ autoPicked = FALSE
    /\ expiredAt = <<>>

\* a single-player draft without a timer
InitSP ==
    /\ HostIdle
    /\ GenIdle
    /\ \E boosterType \in BoosterTypes, numberOfPacks \in 1..MaxPacks :
          InitializeDraft(boosterType, numberOfPacks, NoTimer)

\* the bot picks of confirmPick: the card bot i takes from its hand
BotCard(i) == BotPick(botPacks[i], bots[i])

\* confirmPick: newBots after the bot picks
NewBotsAfterPick ==
    [i \in 1..Len(bots) |->
        IF Len(botPacks[i]) = 0 THEN bots[i]
        ELSE [bots[i] EXCEPT
                !.pickedCards = Append(@, BotCard(i)),
                !.colorPreferences = AddColors(@, BotCard(i).colors)]]

\* confirmPick: newBotPacks
NewBotPacks ==
    [i \in 1..Len(botPacks) |->
        IF Len(botPacks[i]) = 0 THEN botPacks[i]
        ELSE FilterOutId(botPacks[i], BotCard(i).id)]

\* confirmPick: the condition that ends the pack round
PackDone(nextPickNumber, packSize, remainingPack) ==
    nextPickNumber >= packSize - 1 \/ Len(remainingPack) = 0

\* confirmPick: passLeft
PassLeft(pn) == pn % 2 = 0

\* confirmPick(card)
ConfirmPick(card) ==
    LET newPicked == Append(pickedCards, card)
        remainingPack == FilterOutId(currentPack, card.id)
        nextPickNumber == pickNumber + 1
        packSize == DPPackSize(settings.boosterType)
        nextPackNumber == dpPackNumber + 1
    IN /\ card # NoCard
       /\ pickedCards' = newPicked
       /\ bots' = NewBotsAfterPick
       /\ dpFreePicks' = dpFreePicks + (IF card # currentPack[1] THEN 1 ELSE 0)
       /\ IF PackDone(nextPickNumber, packSize, remainingPack)
          THEN IF nextPackNumber >= settings.numberOfPacks
               THEN /\ draftPicks' = newPicked          \* onComplete(newPicked)
                    /\ screen' = "deckbuilder"
                    /\ timerActive' = FALSE
                    /\ UNCHANGED <<dpPackNumber, pickNumber, currentPack,
                                   botPacks, selectedCard, timeLeft>>
               ELSE /\ dpPackNumber' = nextPackNumber
                    /\ pickNumber' = 0
                    /\ currentPack' = allBoosters[nextPackNumber + 1][1]
                    /\ botPacks' = Tail(allBoosters[nextPackNumber + 1])
                    /\ selectedCard' = NoCard
                    /\ timeLeft' = IF settings.pickTimeSeconds > 0
                                   THEN settings.pickTimeSeconds ELSE timeLeft
                    /\ UNCHANGED <<draftPicks, screen, timerActive>>
          ELSE /\ IF PassLeft(dpPackNumber)
                  THEN /\ currentPack' = NewBotPacks[1]
                       /\ botPacks' = Tail(NewBotPacks) \o <<remainingPack>>
                  ELSE /\ currentPack' = NewBotPacks[Len(NewBotPacks)]
                       /\ botPacks' = <<remainingPack>>
                                      \o SubSeq(NewBotPacks, 1, Len(NewBotPacks) - 1)
               /\ pickNumber' = nextPickNumber
               /\ selectedCard' = NoCard
               /\ timeLeft' = IF settings.pickTimeSeconds > 0
                              THEN settings.pickTimeSeconds ELSE timeLeft
               /\ UNCHANGED <<dpPackNumber, draftPicks, screen, timerActive>>
       /\ UNCHANGED <<settings, allBoosters>>
       /\ UNCHANGED <<hostVars, genVars>>

\* cards of the hand the player clicks: the first, or the last while the
\* draft has free picks left
ClickableCards ==
    IF Len(currentPack) = 0 THEN {}
    ELSE {currentPack[1]}
         \cup (IF dpFreePicks < MaxFreePicks THEN {currentPack[Len(currentPack)]} ELSE {})

\* handleCardClick(card)
HandleCardClick(card) ==
    /\ screen = "draft"
    /\ selectedCard' = IF selectedCard.id = card.id THEN selectedCard ELSE card
    /\ autoPicked' = FALSE
    /\ UNCHANGED <<settings, allBoosters, dpPackNumber, pickNumber, currentPack,
                   pickedCards, bots, botPacks, draftPicks, screen, dpFreePicks,
                   timeLeft, timerActive, autoPickTriggered, expiredAt>>
    /\ UNCHANGED <<hostVars, genVars>>

\* handleCardDoubleClick(card)
HandleCardDoubleClick(card) ==
    /\ screen = "draft"
    /\ ConfirmPick(card)
    /\ autoPicked' = FALSE
    /\ UNCHANGED <<autoPickTriggered, expiredAt>>

\* handleKeyDown, key Enter: confirmPick() with the selected card
HandleKeyDownEnter ==
    /\ screen = "draft"
    /\ Len(currentPack) # 0
    /\ selectedCard # NoCard
    /\ ConfirmPick(selectedCard)
    /\ autoPicked' = FALSE
    /\ UNCHANGED <<autoPickTriggered, expiredAt>>

NextSP ==
    \/ \E card \in ClickableCards : HandleCardClick(card)
    \/ \E card \in ClickableCards : HandleCardDoubleClick(card)
    \/ HandleKeyDownEnter

SpecSP == InitSP /\ [][NextSP]_vars

(* ------------- single-player drafts of boosters with a copy ----------- *)
\* the boosters of GenerateDraftBoosters whose last slot drew a printing
\* that an earlier slot of the booster holds already: the slots are filled
\* by independent draws from the same pool (the foil slot of a play booster
\* draws from pool.all, the last slot of a set booster is one more common)
BoostersWithCopy(boosterType, numberOfPacks, numberOfPlayers) ==
    LET boosters == GenerateDraftBoosters(boosterType, numberOfPacks,
                                          numberOfPlayers)
    IN [pk \in 1..numberOfPacks |->
          [pl \in 1..numberOfPlayers |->
              [boosters[pk][pl] EXCEPT ![Len(boosters[pk][pl])] = boosters[pk][pl][1]]]]

\* DraftPick mounted on boosters with or without such a copy, no timer
InitCopies ==
    /\ HostIdle
    /\ GenIdle
    /\ \E boosterType \in BoosterTypes, numberOfPacks \in 1..MaxPacks,
          withCopy \in BOOLEAN :
          /\ settings = [boosterType |-> boosterType,
                         numberOfPacks |-> numberOfPacks,
                         numberOfPlayers |-> NumberOfPlayers,
                         pickTimeSeconds |-> NoTimer]
          /\ allBoosters =
                IF withCopy
                THEN BoostersWithCopy(boosterType, numberOfPacks, NumberOfPlayers)
                ELSE GenerateDraftBoosters(boosterType, numberOfPacks,
                                           NumberOfPlayers)
    /\ dpPackNumber = 0
    /\ pickNumber = 0
    /\ currentPack = allBoosters[1][1]
    /\ selectedCard = NoCard
    /\ pickedCards = <<>>
    /\ bots = NewBots(NumberOfPlayers)
    /\ botPacks = Tail(allBoosters[1])
    /\ draftPicks = <<>>
    /\ screen = "draft"
    /\ dpFreePicks = 0
    /\ timeLeft = NoTimer
    /\ timerActive = FALSE
    /\ autoPickTriggered = FALSE
    /\ autoPicked = FALSE
    /\ expiredAt = <<>>

NextCopies ==
    \/ \E card \in ClickableCards : HandleCardClick(card)
    \/ \E card \in ClickableCards : HandleCardDoubleClick(card)
    \/ HandleKeyDownEnter

SpecCopies == InitCopies /\ [][NextCopies]_vars

(* ------------------ single-player engine with its timer --------------- *)
\* one run of the interval callback of the countdown effect
TimerTick ==
    /\ screen = "draft"
    /\ timerActive
    /\ settings.pickTimeSeconds # 0
    /\ timeLeft > 0
    /\ IF timeLeft <= 1
       THEN /\ timeLeft' = settings.pickTimeSeconds
            /\ IF Len(currentPack) > 0
               THEN /\ selectedCard' = NoCard
                    /\ autoPickTriggered' = TRUE
                    /\ expiredAt' = <<dpPackNumber, pickNumber>>
               ELSE UNCHANGED <<selectedCard, autoPickTriggered, expiredAt>>
       ELSE /\ timeLeft' = timeLeft - 1
            /\ UNCHANGED <<selectedCard, autoPickTriggered, expiredAt>>
    /\ autoPicked' = FALSE
    /\ UNCHANGED <<settings, allBoosters, dpPackNumber, pickNumber, currentPack,
                   pickedCards, bots, botPacks, draftPicks, screen, dpFreePicks,
                   timerActive>>
    /\ UNCHANGED <<hostVars, genVars>>

\* the auto-pick effect taking the last card of the hand
AutoPickEffect_LastCard ==
    /\ screen = "draft"
    /\ autoPickTriggered
    /\ Len(currentPack) > 0
    /\ autoPickTriggered' = FALSE
    /\ ConfirmPick(currentPack[Len(currentPack)])
    /\ autoPicked' = TRUE
    /\ expiredAt' = <<>>

\* the effect on [autoPickTriggered, currentPack]
AutoPickEffect ==
    /\ screen = "draft"
    /\ autoPickTriggered
    /\ Len(currentPack) > 0
    /\ autoPickTriggered' = FALSE
    /\ ConfirmPick(currentPack[1])
    /\ autoPicked' = TRUE
    /\ expiredAt' = <<>>

\* onBack: App.handleBackToSetup unmounts DraftPick
HandleBackToSetup ==
    /\ screen = "draft"
    /\ screen' = "setup"
    /\ autoPicked' = FALSE
    /\ UNCHANGED <<settings, allBoosters, dpPackNumber, pickNumber, currentPack,
                   selectedCard, pickedCards, bots, botPacks, draftPicks,
                   dpFreePicks, timeLeft, timerActive, autoPickTriggered, expiredAt>>
    /\ UNCHANGED <<hostVars, genVars>>

\* a single-player draft with the timer or without
InitTimer ==
    /\ HostIdle
    /\ GenIdle
    /\ \E boosterType \in BoosterTypes, numberOfPacks \in 1..MaxPacks,
          pickTimeSeconds \in {NoTimer, PickTime} :
          InitializeDraft(boosterType, numberOfPacks, pickTimeSeconds)

\* the player's manual picks take the first card of the hand
NextTimer ==
    \/ Len(currentPack) > 0 /\ HandleCardDoubleClick(currentPack[1])
    \/ TimerTick
    \/ AutoPickEffect
    \/ HandleBackToSetup

SpecTimer == InitTimer /\ [][NextTimer]_vars

(* --------------------- the bot picks of confirmPick ------------------- *)
\* the cards a bot's hand is made of
BotPool ==
    << [id |-> 1, rarity |-> "common",   colors |-> <<"G">>],
       [id |-> 2, rarity |-> "rare",     colors |-> <<"U">>],
       [id |-> 3, rarity |-> "common",   colors |-> <<"U">>],
       [id |-> 4, rarity |-> "rare",     colors |-> <<"B">>],
       [id |-> 5, rarity |-> "mythic",   colors |-> <<"U", "R">>],
       [id |-> 6, rarity |-> "uncommon", colors |-> <<>>] >>

\* hands of 1..MaxHand distinct cards of the pool, in every order
BotHands ==
    LET Idx == 1..Len(BotPool)
        H[n \in 0..MaxHand] ==
            IF n = 0 THEN {<<>>}
            ELSE {Append(h, i) : h \in H[n - 1], i \in Idx}
        Distinct(h) == \A j, k \in 1..Len(h) : j # k => h[j] # h[k]
    IN {[k \in 1..Len(h) |-> BotPool[h[k]]] :
            h \in {g \in UNION {H[n] : n \in 1..MaxHand} : Distinct(g)}}

\* one bot at the table, no hand yet
InitBot ==
    /\ HostIdle
    /\ GenIdle
    /\ settings = [boosterType |-> "", numberOfPacks |-> 0,
                   numberOfPlayers |-> 0, pickTimeSeconds |-> 0]
    /\ allBoosters = <<>>
    /\ dpPackNumber = 0
    /\ pickNumber = 0
    /\ currentPack = <<>>
    /\ selectedCard = NoCard
    /\ pickedCards = <<>>
    /\ bots = NewBots(2)
    /\ botPacks = << <<>> >>
    /\ draftPicks = <<>>
    /\ screen = "draft"
    /\ dpFreePicks = 0
    /\ timeLeft = 0
    /\ timerActive = FALSE
    /\ autoPickTriggered = FALSE
    /\ autoPicked = FALSE
    /\ expiredAt = <<>>

\* a hand is passed to the bot
ReceiveHand(hand) ==
    /\ Len(bots[1].pickedCards) < MaxBotPicks
    /\ botPacks' = <<hand>>
    /\ UNCHANGED <<settings, allBoosters, dpPackNumber, pickNumber, currentPack,
                   selectedCard, pickedCards, bots, draftPicks, screen,
                   dpFreePicks, timerVars>>
    /\ UNCHANGED <<hostVars, genVars>>

\* confirmPick: the bot picks (botPacks.map) on the hand the bot holds
BotTurn ==
    /\ Len(bots[1].pickedCards) < MaxBotPicks
    /\ Len(botPacks[1]) > 0
    /\ bots' = NewBotsAfterPick
    /\ botPacks' = NewBotPacks
    /\ UNCHANGED <<settings, allBoosters, dpPackNumber, pickNumber, currentPack,
                   selectedCard, pickedCards, draftPicks, screen,
                   dpFreePicks, timerVars>>
    /\ UNCHANGED <<hostVars, genVars>>

NextBot ==
    \/ \E hand \in BotHands : ReceiveHand(hand)
    \/ BotTurn

SpecBot == InitBot /\ [][NextBot]_vars

(* ------------------ services/boosterGenerator.ts ---------------------- *)
\* the orders [...arr].sort(() => Math.random() - 0.5) can leave arr in:
\* the index sequences that are permutations of 1..len.  Of an array longer
\* than MaxShuffle only the rotations, forwards and backwards, are explored.
Shuffled(len) ==
    IF len <= MaxShuffle
    THEN {p \in [1..len -> 1..len] : \A j, k \in 1..len : j # k => p[j] # p[k]}
    ELSE {[i \in 1..len |-> ((i + k - 2) % len) + 1] : k \in 1..len}
         \cup {[i \in 1..len |-> ((k - i + len) % len) + 1] : k \in 1..len}

\* pickRandomN: the while loop, as the positions of arr pushed to result
\* when `remaining` elements are still needed
RECURSIVE PickRounds(_, _)
PickRounds(len, remaining) ==
    IF remaining <= 0 THEN {<<>>}
    ELSE IF len >= remaining
         THEN {SubSeq(p, 1, remaining) : p \in Shuffled(len)}
         ELSE {p \o r : p \in Shuffled(len), r \in PickRounds(len, remaining - len)}

\* pickRandomN drawing each of the n results from arr independently
PickRandomN_Independent(arr, n) ==
    IF n <= 0 \/ Len(arr) = 0 THEN {<<>>}
    ELSE {[k \in 1..n |-> arr[p[k]]] : p \in [1..n -> 1..Len(arr)]}

\* pickRandomN(arr, n): the lists it can return
PickRandomN(arr, n) ==
    IF n <= 0 THEN {<<>>}
    ELSE IF Len(arr) = 0 THEN {<<>>}
    ELSE {[k \in 1..n |-> arr[p[k]]] : p \in PickRounds(Len(arr), n)}

\* the lists pickRandomN is called on
PickArrays ==
    UNION {[1..len -> {"a", "b", "c"}] : len \in 0..MaxArr}

InitPickN ==
    /\ HostIdle
    /\ NoDraftPick
    /\ genCall = "pickRandomN"
    /\ setFetch = "cards"
    /\ genArgs = NoArgs
    /\ roundBoosters = <<>>
    /\ draftBoosters = <<>>
    /\ cardPool = NoPool
    /\ genCards \in PickArrays
    /\ genN \in 0..MaxPickN
    /\ genType = ""
    /\ genFetch = "none"
    /\ boosterCards = <<>>
    /\ genDone = FALSE

\* pickRandomN(genCards, genN) returns
CallPickRandomN ==
    /\ ~genDone
    /\ boosterCards' \in PickRandomN(genCards, genN)
    /\ genDone' = TRUE
    /\ UNCHANGED <<genCall, setFetch, genArgs, genCards, genType, genN, genFetch,
                   roundBoosters, draftBoosters, cardPool>>
    /\ UNCHANGED <<hostVars, dpVars>>

NextPickN == CallPickRandomN

SpecPickN == InitPickN /\ [][NextPickN]_vars

\* card objects of a set: the fields buildCardPool and the pick functions
\* read.  promo stands for a promo_types entry among buyabox, bundle,
\* prerelease, judge_gift; showcase for a frame effect, a borderless border,
\* the boosterfun promo type or a showcase / extendedart frame.
GenPool ==
    << [rarity |-> "common",   layout |-> "normal", basicLand |-> FALSE, promo |-> FALSE,
        booster |-> TRUE,  showcase |-> FALSE, finishes |-> {"foil", "nonfoil"}],
       [rarity |-> "uncommon", layout |-> "normal", basicLand |-> FALSE, promo |-> FALSE,
        booster |-> TRUE,  showcase |-> FALSE, finishes |-> {"nonfoil"}],
       [rarity |-> "rare",     layout |-> "normal", basicLand |-> FALSE, promo |-> FALSE,
        booster |-> TRUE,  showcase |-> FALSE, finishes |-> {"nonfoil"}],
       [rarity |-> "mythic",   layout |-> "normal", basicLand |-> FALSE, promo |-> FALSE,
        booster |-> TRUE,  showcase |-> FALSE, finishes |-> {"nonfoil"}],
       [rarity |-> "common",   layout |-> "normal", basicLand |-> TRUE,  promo |-> FALSE,
        booster |-> TRUE,  showcase |-> FALSE, finishes |-> {"nonfoil"}],
       [rarity |-> "rare",     layout |-> "normal", basicLand |-> FALSE, promo |-> FALSE,
        booster |-> FALSE, showcase |-> TRUE,  finishes |-> {"foil"}],
       [rarity |-> "common",   layout |-> "token",  basicLand |-> FALSE, promo |-> FALSE,
        booster |-> FALSE, showcase |-> FALSE, finishes |-> {"foil", "nonfoil"}],
       [rarity |-> "special",  layout |-> "normal", basicLand |-> FALSE, promo |-> TRUE,
        booster |-> TRUE,  showcase |-> FALSE, finishes |-> {"nonfoil"}] >>

\* A card object is referred to by its position in the card list (pool.all);
\* the buckets of a pool and the plain entries of a booster hold references.
\* the entry pickRandom yields on an empty array: arr[0] of [] is undefined
Undefined == 0
\* the reference of a card of the bonus sheet (fetchListCards), which is no
\* card of the list
ListCard == -1

\* an entry of a booster: the card object itself (copy = FALSE) or a new
\* object made by spreading it, with the flags written on the new object
Plain(ref) == [ref |-> ref, isFoil |-> FALSE, isFromList |-> FALSE, copy |-> FALSE]
\* { ...card, _isFoil: true }
FoilCopy(ref) == [ref |-> ref, isFoil |-> TRUE, isFromList |-> FALSE, copy |-> TRUE]
\* { ...card, _isFromList: true }
ListCopy(ref) == [ref |-> ref, isFoil |-> FALSE, isFromList |-> TRUE, copy |-> TRUE]

\* buildCardPool, first pass: the bucket each card is pushed to, by the
\* first test of the loop body that decides ("" when the card is skipped)
BucketOf(card) ==
    IF card.layout = "token" \/ card.layout = "art_series" THEN ""
    ELSE IF card.basicLand THEN "basicLands"
    ELSE IF card.promo THEN ""
    ELSE IF ~card.booster /\ card.showcase THEN "variants"
    ELSE IF ~card.booster THEN ""
    ELSE CASE card.rarity = "common"   -> "commons"
           [] card.rarity = "uncommon" -> "uncommons"
           [] card.rarity = "rare"     -> "rares"
           [] card.rarity = "mythic"   -> "mythics"
           [] OTHER                    -> ""

\* the second pass looking at the cards of the six buckets only
FoilOnly_OfBuckets(cards) ==
    SelectSeq([i \in 1..Len(cards) |-> i],
              LAMBDA i : /\ BucketOf(cards[i]) # ""
                         /\ "foil" \in cards[i].finishes
                         /\ "nonfoil" \notin cards[i].finishes)

\* buildCardPool, second pass: the foil-only cards
FoilOnly(cards) ==
    SelectSeq([i \in 1..Len(cards) |-> i],
              LAMBDA i : /\ "foil" \in cards[i].finishes
                         /\ "nonfoil" \notin cards[i].finishes)

\* buildCardPool with the promo test ahead of the basic land test
BuildCardPool_PromoFirst(cards) ==
    LET refs == [i \in 1..Len(cards) |-> i]
        Bucket(name) ==
            SelectSeq(refs, LAMBDA i : ~cards[i].promo /\ BucketOf(cards[i]) = name)
    IN [commons    |-> Bucket("commons"),
        uncommons  |-> Bucket("uncommons"),
        rares      |-> Bucket("rares"),
        mythics    |-> Bucket("mythics"),
        basicLands |-> Bucket("basicLands"),
        variants   |-> Bucket("variants"),
        foilOnly   |-> FoilOnly(cards),
        all        |-> refs,
        objects    |-> cards]

\* buildCardPool(cards); objects holds the card objects the references of
\* the buckets stand for
BuildCardPool(cards) ==
    LET refs == [i \in 1..Len(cards) |-> i]
        Bucket(name) == SelectSeq(refs, LAMBDA i : BucketOf(cards[i]) = name)
    IN [commons    |-> Bucket("commons"),
        uncommons  |-> Bucket("uncommons"),
        rares      |-> Bucket("rares"),
        mythics    |-> Bucket("mythics"),
        basicLands |-> Bucket("basicLands"),
        variants   |-> Bucket("variants"),
        foilOnly   |-> FoilOnly(cards),
        all        |-> refs,
        objects    |-> cards]

\* pickRandom(arr): the references it can return
PickRandom(arr) ==
    IF Len(arr) = 0 THEN {Undefined} ELSE {arr[i] : i \in 1..Len(arr)}

\* cards.push(...a) followed by cards.push(...b)
Cat(A, B) == {a \o b : a \in A, b \in B}
\* cards.push(...picked) and cards.push(card) of cards taken as they are
Pushed(S) == {[k \in 1..Len(s) |-> Plain(s[k])] : s \in S}
One(S) == {<<Plain(c)>> : c \in S}

\* canBeFoil accepting every card that has a finish
CanBeFoil_AnyFinish(card) == card.finishes # {}

\* canBeFoil(card)
CanBeFoil(card) == "foil" \in card.finishes

\* pickFoilCard writing the flag on the card object picked
PickFoilCard_InPlace(pool) ==
    LET foilable == SelectSeq(pool.all, LAMBDA i : CanBeFoil(pool.objects[i]))
        Marked(ref) == [Plain(ref) EXCEPT !.isFoil = TRUE]
    IN (IF Len(pool.foilOnly) > 0
        THEN {<<Marked(c)>> : c \in PickRandom(pool.foilOnly)} ELSE {})
       \cup (IF Len(foilable) > 0
             THEN {<<Marked(c)>> : c \in PickRandom(foilable)} ELSE {<<>>})

\* pickFoilCard(pool): the entries it can return, <<>> standing for null
PickFoilCard(pool) ==
    LET foilable == SelectSeq(pool.all, LAMBDA i : CanBeFoil(pool.objects[i]))
    IN (IF Len(pool.foilOnly) > 0
        THEN {<<FoilCopy(c)>> : c \in PickRandom(pool.foilOnly)} ELSE {})
       \cup (IF Len(foilable) > 0
             THEN {<<FoilCopy(c)>> : c \in PickRandom(foilable)} ELSE {<<>>})

\* safePick: the primary source of a rarity
Source(pool, preferredRarity) ==
    CASE preferredRarity = "common"   -> pool.commons
      [] preferredRarity = "uncommon" -> pool.uncommons
      [] preferredRarity = "rare"     -> pool.rares
      [] preferredRarity = "mythic"   -> pool.mythics
      [] preferredRarity = "land"     -> pool.basicLands

\* the fallback pool with the mythics added to that of the commons
Adjacent_WithMythics(pool, preferredRarity) ==
    CASE preferredRarity = "common"   -> pool.uncommons \o pool.rares \o pool.mythics
      [] preferredRarity = "uncommon" -> pool.commons \o pool.rares
      [] preferredRarity = "rare"     -> pool.mythics \o pool.uncommons \o pool.commons
      [] preferredRarity = "mythic"   -> pool.rares \o pool.uncommons \o pool.commons
      [] preferredRarity = "land"     -> pool.commons

\* safePick: the fallback pool of adjacent rarities
Adjacent(pool, preferredRarity) ==
    CASE preferredRarity = "common"   -> pool.uncommons \o pool.rares
      [] preferredRarity = "uncommon" -> pool.commons \o pool.rares
      [] preferredRarity = "rare"     -> pool.mythics \o pool.uncommons \o pool.commons
      [] preferredRarity = "mythic"   -> pool.rares \o pool.uncommons \o pool.commons
      [] preferredRarity = "land"     -> pool.commons

\* safePick with the fallback pool left empty instead of replaced by pool.all
SafePick_NoFinalFallback(pool, count, preferredRarity) ==
    LET source == Source(pool, preferredRarity)
        fallbackPool == Adjacent(pool, preferredRarity)
    IN IF Len(source) >= count THEN PickRandomN(source, count)
       ELSE UNION {IF count - Len(picked) > 0 /\ Len(fallbackPool) > 0
                   THEN {picked \o more :
                            more \in PickRandomN(fallbackPool, count - Len(picked))}
                   ELSE {picked}
                   : picked \in IF Len(source) > 0
                                THEN PickRandomN(source, Len(source))
                                ELSE {<<>>}}

\* safePick(pool, count, preferredRarity): the reference lists it can return
SafePick(pool, count, preferredRarity) ==
    LET source == Source(pool, preferredRarity)
        adjacent == Adjacent(pool, preferredRarity)
        fallbackPool == IF Len(adjacent) = 0 THEN pool.all ELSE adjacent
    IN IF Len(source) >= count THEN PickRandomN(source, count)
       ELSE UNION {IF count - Len(picked) > 0 /\ Len(fallbackPool) > 0
                   THEN {picked \o more :
                            more \in PickRandomN(fallbackPool, count - Len(picked))}
                   ELSE {picked}
                   : picked \in IF Len(source) > 0
                                THEN PickRandomN(source, Len(source))
                                ELSE {<<>>}}

\* pickRareOrMythic always drawing from rares
PickRareOrMythic_RaresOnly(pool) == PickRandom(pool.rares)

\* pickRareOrMythic(pool): the references it can return
PickRareOrMythic(pool) ==
    IF Len(pool.mythics) = 0
    THEN IF Len(pool.rares) = 0
         THEN {IF Len(s) = 0 THEN Undefined ELSE s[1] :
                   s \in SafePick(pool, 1, "uncommon")}
         ELSE PickRandom(pool.rares)
    ELSE IF Len(pool.rares) = 0
         THEN PickRandom(pool.mythics)
         ELSE PickRandom(pool.mythics) \cup PickRandom(pool.rares)

\* pickWildcard, getPoolWithVariants(standard, rarity): the sources it can
\* return
GetPoolWithVariants(pool, standard, rarity) ==
    LET variants == SelectSeq(pool.variants,
                              LAMBDA i : pool.objects[i].rarity = rarity)
    IN IF Len(standard) = 0 /\ Len(variants) = 0 THEN {<<>>}
       ELSE IF Len(standard) = 0 THEN {variants}
       ELSE IF Len(variants) = 0 THEN {standard}
       ELSE {variants, standard}

\* pickWildcard(pool): the references it can return; the roll selects the
\* first of the four rarity tests that is tried
PickWildcard(pool) ==
    LET Sources(k) ==
            CASE k = 1 -> GetPoolWithVariants(pool, pool.commons, "common")
              [] k = 2 -> GetPoolWithVariants(pool, pool.uncommons, "uncommon")
              [] k = 3 -> GetPoolWithVariants(pool, pool.rares, "rare")
              [] k = 4 -> GetPoolWithVariants(pool, pool.mythics, "mythic")
        From[k \in 1..5] ==
            IF k = 5 THEN PickRandom(pool.all)
            ELSE UNION {IF Len(source) > 0 THEN PickRandom(source) ELSE From[k + 1]
                           : source \in Sources(k)}
    IN UNION {From[k] : k \in 1..4}

\* the basic land slot shared by the three generators
LandSlot(pool) ==
    IF Len(pool.basicLands) > 0 THEN One(PickRandom(pool.basicLands))
    ELSE Pushed(SafePick(pool, 1, "common"))

\* the foil slot: pickFoilCard, or a wildcard when it returns null
FoilSlot(pool) ==
    (PickFoilCard(pool) \ {<<>>})
        \cup (IF <<>> \in PickFoilCard(pool) THEN One(PickWildcard(pool)) ELSE {})

\* what becomes of the bonus sheet in a play booster: the roll does not ask
\* for it, or fetchListCards returns cards, returns none, or throws
FetchOutcomes == {"none", "cards", "empty", "throws"}

\* generatePlayBooster with the last three slots in the order of its doc
\* comment: non-foil wildcard, foil wildcard, basic land
GeneratePlayBooster_DocOrder(pool, fetch) ==
    Cat(Pushed(SafePick(pool, 6, "common")),
    Cat(IF fetch = "cards" THEN {<<ListCopy(ListCard)>>}
        ELSE Pushed(SafePick(pool, 1, "common")),
    Cat(Pushed(SafePick(pool, 3, "uncommon")),
    Cat(One(PickRareOrMythic(pool)),
    Cat(One(PickWildcard(pool)),
    Cat(FoilSlot(pool),
        LandSlot(pool)))))))

\* generatePlayBooster(pool): the lists it can return
GeneratePlayBooster(pool, fetch) ==
    Cat(Pushed(SafePick(pool, 6, "common")),
    Cat(IF fetch = "cards" THEN {<<ListCopy(ListCard)>>}
        ELSE Pushed(SafePick(pool, 1, "common")),
    Cat(Pushed(SafePick(pool, 3, "uncommon")),
    Cat(One(PickRareOrMythic(pool)),
    Cat(LandSlot(pool),
    Cat(One(PickWildcard(pool)),
        FoilSlot(pool)))))))

\* generateDraftBooster pushing the uncommons ahead of the commons
GenerateDraftBooster_UncommonsFirst(pool) ==
    Cat(Pushed(SafePick(pool, 3, "uncommon")),
    Cat(Pushed(SafePick(pool, 10, "common")),
    Cat(One(PickRareOrMythic(pool)),
        LandSlot(pool))))

\* generateDraftBooster(pool)
GenerateDraftBooster(pool) ==
    Cat(Pushed(SafePick(pool, 10, "common")),
    Cat(Pushed(SafePick(pool, 3, "uncommon")),
    Cat(One(PickRareOrMythic(pool)),
        LandSlot(pool))))

\* generateSetBooster(pool)
GenerateSetBooster(pool) ==
    LET mixed == pool.commons \o pool.uncommons
        mixedPool == IF Len(mixed) = 0
                     THEN IF Len(pool.rares) > 0 THEN pool.rares ELSE pool.all
                     ELSE mixed
    IN Cat(Pushed(PickRandomN(mixedPool, 6)),
       Cat(Pushed(SafePick(pool, 2, "uncommon")),
       Cat(One(PickRareOrMythic(pool)),
       Cat(One(PickRareOrMythic(pool)) \cup FoilSlot(pool),
       Cat(LandSlot(pool),
           Pushed(SafePick(pool, 1, "common")))))))

\* generateGenericBooster without the wildcard of its last push
GenerateGenericBooster_NoWildcard(pool) ==
    {SubSeq(s, 1, IF Len(s) < 15 THEN Len(s) ELSE 15) :
        s \in Cat(Pushed(SafePick(pool, 9, "common")),
              Cat(Pushed(SafePick(pool, 3, "uncommon")),
                  One(PickRareOrMythic(pool))))}

\* generateGenericBooster(pool): cards.slice(0, 15)
GenerateGenericBooster(pool) ==
    {SubSeq(s, 1, IF Len(s) < 15 THEN Len(s) ELSE 15) :
        s \in Cat(Pushed(SafePick(pool, 9, "common")),
              Cat(Pushed(SafePick(pool, 3, "uncommon")),
              Cat(One(PickRareOrMythic(pool)),
                  One(PickWildcard(pool)))))}

\* generateBooster(setCode, boosterType, setReleaseDate, preFetchedCards):
\* the card lists it can return for a non-empty card list.  No statement of
\* the three generators throws (the bonus sheet is fetched inside a try of
\* generatePlayBooster), so the catch branch is never entered and the generic
\* booster is produced by the default branch only.
GenerateBooster(boosterType, preFetchedCards, fetch) ==
    LET pool == BuildCardPool(preFetchedCards)
    IN CASE boosterType = "play"  -> GeneratePlayBooster(pool, fetch)
         [] boosterType = "draft" -> GenerateDraftBooster(pool)
         [] boosterType = "set"   -> GenerateSetBooster(pool)
         [] OTHER                 -> GenerateGenericBooster(pool)

\* the card lists handed to generateBooster: up to MaxCards cards of GenPool
GenLists ==
    LET L[n \in 0..MaxCards] ==
            IF n = 0 THEN {<<>>}
            ELSE L[n - 1] \cup
                 {Append(l, id) : l \in {k \in L[n - 1] : Len(k) = n - 1},
                                  id \in 1..Len(GenPool)}
    IN {[k \in 1..Len(l) |-> GenPool[l[k]]] :
            l \in {m \in L[MaxCards] : \A j, k \in 1..Len(m) : j < k => m[j] < m[k]}}

\* a booster type the switch of generateBooster does not know
OtherType == "jumpstart"

InitBooster ==
    /\ HostIdle
    /\ NoDraftPick
    /\ genCall \in {"generateBooster", "pickFoilCard"}
    /\ setFetch = "cards"
    /\ genArgs = NoArgs
    /\ roundBoosters = <<>>
    /\ draftBoosters = <<>>
    /\ cardPool = NoPool
    /\ genCards \in GenLists
    /\ genType \in IF genCall = "generateBooster"
                   THEN BoosterTypes \cup {OtherType} ELSE {""}
    /\ genN = 0
    /\ genFetch = "none"
    /\ boosterCards = <<>>
    /\ genDone = FALSE

\* pickFoilCard(pool) returns a copy or null (<<>>)
CallPickFoilCard ==
    /\ ~genDone
    /\ genCall = "pickFoilCard"
    /\ boosterCards' \in PickFoilCard(BuildCardPool(genCards))
    /\ genDone' = TRUE
    /\ UNCHANGED <<genCall, setFetch, genArgs, genCards, genType, genN, genFetch,
                   roundBoosters, draftBoosters, cardPool>>
    /\ UNCHANGED <<hostVars, dpVars>>

\* generateBooster returns a booster
CallGenerateBooster ==
    /\ ~genDone
    /\ genCall = "generateBooster"
    /\ setFetch = "cards"
    /\ Len(genCards) > 0
    /\ \E fetch \in IF genType = "play" THEN FetchOutcomes ELSE {"none"} :
          /\ boosterCards' \in GenerateBooster(genType, genCards, fetch)
          /\ genFetch' = fetch
    /\ genDone' = TRUE
    /\ UNCHANGED <<genCall, setFetch, genArgs, genCards, genType, genN,
                   roundBoosters, draftBoosters, cardPool>>
    /\ UNCHANGED <<hostVars, dpVars>>

\* generateBooster throws on an empty card list
ThrowNoCards ==
    /\ ~genDone
    /\ genCall = "generateBooster"
    /\ setFetch = "cards"
    /\ Len(genCards) = 0
    /\ genType' = "error"
    /\ genDone' = TRUE
    /\ UNCHANGED <<genCall, setFetch, genArgs, genCards, genN, genFetch,
                   boosterCards, roundBoosters, draftBoosters, cardPool>>
    /\ UNCHANGED <<hostVars, dpVars>>

NextBooster ==
    \/ CallGenerateBooster
    \/ ThrowNoCards
    \/ CallPickFoilCard

SpecBooster == InitBooster /\ [][NextBooster]_vars

(* ------------------- the slot pickers on pools of their own ------------ *)

\* the card lists the pools of the pickers are built from: up to
\* MaxPickCards cards of GenPool, several cards of one kind included
PickLists ==
    LET L[n \in 0..MaxPickCards] ==
            IF n = 0 THEN {<<>>}
            ELSE L[n - 1] \cup
                 {Append(l, id) : l \in {k \in L[n - 1] : Len(k) = n - 1},
                                  id \in 1..Len(GenPool)}
    IN {[k \in 1..Len(l) |-> GenPool[l[k]]] :
            l \in {m \in L[MaxPickCards] : \A j, k \in 1..Len(m) : j < k => m[j] <= m[k]}}

\* preferredRarity of safePick
Rarities == {"common", "uncommon", "rare", "mythic", "land"}

InitPicks ==
    /\ HostIdle
    /\ NoDraftPick
    /\ genCall \in {"safePick", "pickRareOrMythic", "pickFoilCard"}
    /\ setFetch = "cards"
    /\ genArgs = NoArgs
    /\ genCards \in PickLists
    /\ genType \in IF genCall = "safePick" THEN Rarities ELSE {""}
    /\ genN \in IF genCall = "safePick" THEN 0..MaxPickN ELSE {0}
    /\ genFetch = "none"
    /\ boosterCards = <<>>
    /\ roundBoosters = <<>>
    /\ draftBoosters = <<>>
    /\ cardPool = NoPool
    /\ genDone = FALSE

\* safePick(pool, genN, genType) returns
CallSafePick ==
    /\ ~genDone
    /\ genCall = "safePick"
    /\ boosterCards' \in SafePick(BuildCardPool(genCards), genN, genType)
    /\ genDone' = TRUE
    /\ UNCHANGED <<genCall, setFetch, genArgs, genCards, genType, genN, genFetch,
                   roundBoosters, draftBoosters, cardPool>>
    /\ UNCHANGED <<hostVars, dpVars>>

\* pickRareOrMythic(pool) returns
CallPickRareOrMythic ==
    /\ ~genDone
    /\ genCall = "pickRareOrMythic"
    /\ \E card \in PickRareOrMythic(BuildCardPool(genCards)) :
          boosterCards' = <<card>>
    /\ genDone' = TRUE
    /\ UNCHANGED <<genCall, setFetch, genArgs, genCards, genType, genN, genFetch,
                   roundBoosters, draftBoosters, cardPool>>
    /\ UNCHANGED <<hostVars, dpVars>>

NextPicks ==
    \/ CallSafePick
    \/ CallPickRareOrMythic
    \/ CallPickFoilCard

SpecPicks == InitPicks /\ [][NextPicks]_vars

(* ----------------------------- buildCardPool --------------------------- *)

\* the cards buildCardPool may be handed: every combination of the fields it
\* reads
CardKinds ==
    [rarity    : {"common", "uncommon", "rare", "mythic", "special"},
     layout    : {"normal", "token", "art_series"},
     basicLand : BOOLEAN,
     promo     : BOOLEAN,
     booster   : BOOLEAN,
     showcase  : BOOLEAN,
     finishes  : {{"nonfoil"}, {"foil"}, {"foil", "nonfoil"}}]

PoolLists ==
    UNION {[1..n -> CardKinds] : n \in 0..MaxPoolCards}

InitPool ==
    /\ HostIdle
    /\ NoDraftPick
    /\ genCall = "buildCardPool"
    /\ setFetch = "cards"
    /\ genArgs = NoArgs
    /\ genCards \in PoolLists
    /\ genType = ""
    /\ genN = 0
    /\ genFetch = "none"
    /\ boosterCards = <<>>
    /\ roundBoosters = <<>>
    /\ draftBoosters = <<>>
    /\ cardPool = NoPool
    /\ genDone = FALSE

\* buildCardPool(genCards) returns
CallBuildCardPool ==
    /\ ~genDone
    /\ genCall = "buildCardPool"
    /\ cardPool' = BuildCardPool(genCards)
    /\ genDone' = TRUE
    /\ UNCHANGED <<genCall, setFetch, genArgs, genCards, genType, genN, genFetch,
                   boosterCards, roundBoosters, draftBoosters>>
    /\ UNCHANGED <<hostVars, dpVars>>

NextPool == CallBuildCardPool

SpecPool == InitPool /\ [][NextPool]_vars

(* ------------------ draft boosters of a full-size pool ----------------- *)

\* n cards of one kind of GenPool
Copies(kind, n) == [k \in 1..n |-> GenPool[kind]]

\* card lists that fill every slot of a draft booster from its own bucket:
\* DraftCommons commons and DraftUncommons uncommons at least, up to
\* ExtraCards more of each, a rare or a mythic or both, a basic land or none
FullLists ==
    {Copies(1, c) \o Copies(2, u) \o Copies(3, rm[1]) \o Copies(4, rm[2])
                 \o Copies(5, l) :
        c \in DraftCommons..(DraftCommons + ExtraCards),
        u \in DraftUncommons..(DraftUncommons + ExtraCards),
        rm \in {<<1, 0>>, <<0, 1>>, <<1, 1>>},
        l \in 0..1}

InitFullPool ==
    /\ HostIdle
    /\ NoDraftPick
    /\ genCall = "generateBooster"
    /\ setFetch = "cards"
    /\ genArgs = NoArgs
    /\ genCards \in FullLists
    /\ genType = "draft"
    /\ genN = 0
    /\ genFetch = "none"
    /\ boosterCards = <<>>
    /\ roundBoosters = <<>>
    /\ draftBoosters = <<>>
    /\ cardPool = NoPool
    /\ genDone = FALSE

NextFullPool == CallGenerateBooster

SpecFullPool == InitFullPool /\ [][NextFullPool]_vars

(* ---------------------------- fetchListCards --------------------------- *)

\* dates are days; a card without released_at has day 0
TargetDay == 200
\* Math.abs(target - cardDate) / (1000 * 60 * 60 * 24 * 30) <= 6
WithinSixMonths(target, cardDate) ==
    LET diffDays == IF target >= cardDate THEN target - cardDate ELSE cardDate - target
    IN diffDays <= 6 * 30

\* the bonus sheets fetched: `near` cards released within the window (on
\* its first day, on the target day, on its last day in turn), `far` cards
\* released a day outside of it, `undated` cards without released_at
ListSheet(near, far, undated) ==
    [k \in 1..near |-> [released_at |-> TargetDay + ((k % 3) - 1) * 180]]
    \o [k \in 1..far |-> [released_at |-> TargetDay + (IF k % 2 = 0 THEN 181 ELSE -181)]]
    \o [k \in 1..undated |-> [released_at |-> 0]]

ListSheets ==
    {ListSheet(near, far, undated) :
        near \in 0..MaxListNear, far \in 0..MaxListFar, undated \in 0..1}

\* fetchListCards(releaseDate): the list returned for allListCards
FetchListCards(releaseDate, allListCards) ==
    IF releaseDate # 0
    THEN LET filtered ==
                 SelectSeq(allListCards,
                           LAMBDA card : /\ card.released_at # 0
                                         /\ WithinSixMonths(releaseDate, card.released_at))
         IN IF Len(filtered) > ListThreshold THEN filtered ELSE allListCards
    ELSE allListCards

\* genCards is allListCards, genN the release date (0 when none is passed)
InitList ==
    /\ HostIdle
    /\ NoDraftPick
    /\ genCall = "fetchListCards"
    /\ setFetch = "cards"
    /\ genArgs = NoArgs
    /\ genCards \in ListSheets
    /\ genType = ""
    /\ genN \in {0, TargetDay}
    /\ genFetch = "none"
    /\ boosterCards = <<>>
    /\ roundBoosters = <<>>
    /\ draftBoosters = <<>>
    /\ cardPool = NoPool
    /\ genDone = FALSE

\* fetchListCards(genN) returns
CallFetchListCards ==
    /\ ~genDone
    /\ genCall = "fetchListCards"
    /\ boosterCards' = FetchListCards(genN, genCards)
    /\ genDone' = TRUE
    /\ UNCHANGED <<genCall, setFetch, genArgs, genCards, genType, genN, genFetch,
                   roundBoosters, draftBoosters, cardPool>>
    /\ UNCHANGED <<hostVars, dpVars>>

NextList == CallFetchListCards

SpecList == InitList /\ [][NextList]_vars

(* ---------------- generateDraftBoosters and its callers ---------------- *)

\* the card lists fetchSetCards resolves with here: no card, or one card of
\* GenPool
DraftSets == {<<>>} \cup {<<GenPool[i]>> : i \in 1..Len(GenPool)}

\* SealedOpener calls generateBooster, App and SetSelector call
\* generateDraftBoosters; the card list is the one fetchSetCards resolves
\* with, unless it rejects
InitDraft ==
    /\ HostIdle
    /\ NoDraftPick
    /\ genCall \in {"generateBooster", "generateDraftBoosters"}
    /\ setFetch \in {"cards", "throws"}
    /\ genCards \in IF setFetch = "cards" THEN DraftSets ELSE {<<>>}
    /\ genType \in BoosterTypes \cup {OtherType}
    /\ genArgs \in IF genCall = "generateDraftBoosters"
                   THEN [numberOfPacks : 0..MaxDraftPacks,
                         numberOfPlayers : 0..MaxDraftPlayers]
                   ELSE {NoArgs}
    /\ genN = 0
    /\ genFetch = "none"
    /\ boosterCards = <<>>
    /\ roundBoosters = <<>>
    /\ draftBoosters = <<>>
    /\ cardPool = NoPool
    /\ genDone = FALSE

\* await fetchSetCards(setCode) rejects: the call rejects with its error
FetchSetCardsThrows ==
    /\ ~genDone
    /\ setFetch = "throws"
    /\ genType' = "error"
    /\ genDone' = TRUE
    /\ UNCHANGED <<genCall, setFetch, genArgs, genCards, genN, genFetch,
                   boosterCards, roundBoosters, draftBoosters, cardPool>>
    /\ UNCHANGED <<hostVars, dpVars>>

\* generateDraftBoosters without the check of cards.length: the loops run on
\* the empty list
DraftThrowNoCards_NoCheck ==
    /\ ~genDone
    /\ genCall = "generateDraftBoosters"
    /\ setFetch = "cards"
    /\ Len(genCards) = 0
    /\ draftBoosters' =
           [p \in 1..genArgs.numberOfPacks |->
               [q \in 1..genArgs.numberOfPlayers |->
                   [cards |-> <<>>, boosterType |-> genType]]]
    /\ genDone' = TRUE
    /\ UNCHANGED <<genCall, setFetch, genArgs, genCards, genType, genN, genFetch,
                   boosterCards, roundBoosters, cardPool>>
    /\ UNCHANGED <<hostVars, dpVars>>

\* generateDraftBoosters throws on an empty card list, before its loops
DraftThrowNoCards ==
    /\ ~genDone
    /\ genCall = "generateDraftBoosters"
    /\ setFetch = "cards"
    /\ Len(genCards) = 0
    /\ genType' = "error"
    /\ genDone' = TRUE
    /\ UNCHANGED <<genCall, setFetch, genArgs, genCards, genN, genFetch,
                   boosterCards, roundBoosters, draftBoosters, cardPool>>
    /\ UNCHANGED <<hostVars, dpVars>>

\* one pass of the inner loop: await generateBooster(..., cards), push the
\* booster, and push the round when it is the last of its round
DraftGenerateBooster ==
    /\ ~genDone
    /\ genCall = "generateDraftBoosters"
    /\ setFetch = "cards"
    /\ Len(genCards) > 0
    /\ Len(draftBoosters) < genArgs.numberOfPacks
    /\ Len(roundBoosters) < genArgs.numberOfPlayers
    /\ \E fetch \in IF genType = "play" THEN FetchOutcomes ELSE {"none"} :
       \E cards \in GenerateBooster(genType, genCards, fetch) :
          LET booster == [cards |-> cards, boosterType |-> genType]
              round == Append(roundBoosters, booster)
          IN IF Len(round) = genArgs.numberOfPlayers
             THEN /\ draftBoosters' = Append(draftBoosters, round)
                  /\ roundBoosters' = <<>>
             ELSE /\ roundBoosters' = round
                  /\ UNCHANGED draftBoosters
    /\ UNCHANGED <<genCall, setFetch, genArgs, genCards, genType, genN, genFetch,
                   boosterCards, genDone, cardPool>>
    /\ UNCHANGED <<hostVars, dpVars>>

\* the loops are over: return allBoosters (rounds without a booster when
\* numberOfPlayers is 0)
DraftReturn ==
    /\ ~genDone
    /\ genCall = "generateDraftBoosters"
    /\ setFetch = "cards"
    /\ Len(genCards) > 0
    /\ \/ Len(draftBoosters) = genArgs.numberOfPacks
       \/ genArgs.numberOfPlayers = 0
    /\ draftBoosters' = IF genArgs.numberOfPlayers = 0
                        THEN [p \in 1..genArgs.numberOfPacks |-> <<>>]
                        ELSE draftBoosters
    /\ genDone' = TRUE
    /\ UNCHANGED <<genCall, setFetch, genArgs, genCards, genType, genN, genFetch,
                   boosterCards, roundBoosters, cardPool>>
    /\ UNCHANGED <<hostVars, dpVars>>

NextDraft ==
    \/ FetchSetCardsThrows
    \/ DraftThrowNoCards
    \/ DraftGenerateBooster
    \/ DraftReturn
    \/ CallGenerateBooster
    \/ ThrowNoCards

SpecDraft == InitDraft /\ [][NextDraft]_vars

(* ======================= properties of the host ======================= *)
\* the step just taken handled a pick request (make_pick or a host pick)
PickStep == last'.op = "pick"

\* the seat the request is attributed to, in the state before the step
PickSeat == FindPlayer(players, last'.peer)

\* the request passes processPick's guards in the state before the step
PickAccepted ==
    /\ PickSeat # 0
    /\ ~players[PickSeat].hasPicked
    /\ \E k \in 1..Len(players[PickSeat].currentHand) :
          players[PickSeat].currentHand[k] = last'.cardId

\* the accepted pick is the last one of its round
PickCompletesRound ==
    /\ PickAccepted
    /\ \A j \in 1..Len(players) : j # PickSeat => players[j].hasPicked

\* seat j's hand once the step's pick is taken out of the picker's hand
RemainingHand(j) ==
    IF j = PickSeat
    THEN LET h == players[j].currentHand
             k == CHOOSE k \in 1..Len(h) :
                     h[k] = last'.cardId /\ \A m \in 1..(k - 1) : h[m] # last'.cardId
         IN [m \in 1..(Len(h) - 1) |-> IF m < k THEN h[m] ELSE h[m + 1]]
    ELSE players[j].currentHand

PrevSeat(i, n) == IF i = 1 THEN n ELSE i - 1
NextSeat(i, n) == IF i = n THEN 1 ELSE i + 1

\* C1: a pick request from a seat that has already picked this round, for a
\* card id that is not in the seat's hand, or from a sender that is no seat
\* changes no seat's hand, picks or flag nor the pack index; an accepted pick
\* appends exactly the picked card to that seat's picks (and to no other
\* seat's) and, unless it completes the round, leaves the seat marked as
\* having picked, so that a repeated pick in the round adds nothing.
C1_Step ==
    PickStep =>
        /\ ~PickAccepted => (players' = players /\ packNumber' = packNumber)
        /\ PickAccepted =>
              /\ Len(players') = Len(players)
              /\ \A j \in 1..Len(players) :
                    players'[j].picks =
                        IF j = PickSeat
                        THEN Append(players[j].picks, last'.cardId)
                        ELSE players[j].picks
              /\ ~PickCompletesRound => players'[PickSeat].hasPicked
C1_RejectedPickIsNoOp == [][C1_Step]_vars

\* a second pick of a seat that has already picked, for a card that is still
\* in its hand, has just been rejected
C1_Witness ==
    /\ isDrafting
    /\ last.op = "pick"
    /\ outbox = <<>>
    /\ LET s == FindPlayer(players, last.peer)
       IN /\ s # 0
          /\ players[s].hasPicked
          /\ Len(players[s].picks) >= 1
          /\ \E k \in 1..Len(players[s].currentHand) :
                players[s].currentHand[k] = last.cardId

\* the step is a pass: the round's last pick arrived and the pack index stays
PassStep == PickStep /\ PickCompletesRound /\ packNumber' = packNumber

\* C2: on a pass, seat i receives the remaining hand of seat (i-1) mod N when
\* the pack index is even and of seat (i+1) mod N when it is odd, and every
\* seat's hasPicked flag is false afterwards.
C2_Step ==
    PassStep =>
        LET n == Len(players)
        IN /\ Len(players') = n
           /\ \A i \in 1..n :
                 /\ players'[i].currentHand =
                       IF packNumber % 2 = 0
                       THEN RemainingHand(PrevSeat(i, n))
                       ELSE RemainingHand(NextSeat(i, n))
                 /\ ~players'[i].hasPicked
C3_Step ==
    (PickStep /\ PickCompletesRound) =>
        IF \A j \in 1..Len(players) : Len(RemainingHand(j)) = 0
        THEN packNumber' = packNumber + 1
        ELSE packNumber' = packNumber
C3_AdvanceIffAllEmpty == [][C3_Step]_vars

\* the bag of the elements of a sequence
BagOfSeq(q) ==
    [x \in {q[i] : i \in 1..Len(q)} |-> Cardinality({i \in 1..Len(q) : q[i] = x})]

\* the bag of the cards of a sequence of card lists
CardBag(qs) ==
    LET F[i \in 0..Len(qs)] ==
            IF i = 0 THEN EmptyBag ELSE F[i - 1] (+) BagOfSeq(qs[i])
    IN F[Len(qs)]

\* the packs of column c that openNextPack has not dealt yet
NotYetOpened(c) ==
    IF packNumber + 1 >= Len(unopenedPacks[c]) THEN EmptyBag
    ELSE CardBag([r \in 1..(Len(unopenedPacks[c]) - (packNumber + 1)) |->
                     unopenedPacks[c][packNumber + 1 + r]])

ColumnBags(f(_)) ==
    LET F[c \in 0..Len(unopenedPacks)] ==
            IF c = 0 THEN EmptyBag ELSE F[c - 1] (+) f(c)
    IN F[Len(unopenedPacks)]

AllDealt(c) == CardBag(unopenedPacks[c])

\* C4: after startDraft the cards in the seats' hands, in their picks and in
\* the packs not opened yet are together exactly the cards of the packs given
\* to startDraft.
C4_CardConservation ==
    isDrafting =>
        CardBag([i \in 1..Len(players) |-> players[i].currentHand])
            (+) CardBag([i \in 1..Len(players) |-> players[i].picks])
            (+) ColumnBags(NotYetOpened)
        = ColumnBags(AllDealt)

\* the draft has reached its terminal state
Complete == isDrafting /\ packNumber >= totalPacks

\* startDraft was given one column of packs per seat, and no peer holds two
\* seats
RegularStart ==
    /\ isDrafting
    /\ Len(unopenedPacks) = Len(players)
    /\ \A i, j \in 1..Len(players) : players[i].id = players[j].id => i = j

\* C5: the draft eventually completes, and no reachable state leaves the
\* round waiting on a seat that cannot pick.  Hands change only when every
\* seat has picked, so a seat that has not picked and holds an empty hand
\* blocks the round for ever; the claim therefore requires, for a draft
\* started with one column of non-empty packs per seat, that until completion
\* every seat that still has to pick holds a card.
C5_NoSeatWaitsOnEmptyHand ==
    (RegularStart /\ ~Complete) =>
        \A i \in 1..Len(players) :
            ~players[i].hasPicked => Len(players[i].currentHand) > 0


\* the messages of a sequence that are of one of the given types
OfType(msgs, types) == SelectSeq(msgs, LAMBDA m : m.type \in types)

\* every pack given to startDraft has the same number of cards
EqualLengthPacks(packs) ==
    \A c1, c2 \in 1..Len(packs) :
        \A r1 \in 1..Len(packs[c1]), r2 \in 1..Len(packs[c2]) :
            Len(packs[c1][r1]) = Len(packs[c2][r2])

\* the number of cards dealt to seat i over all pack rounds
CardsDealtTo(packs, i) ==
    LET F[r \in 0..Len(packs[i])] ==
            IF r = 0 THEN 0 ELSE F[r - 1] + Len(packs[i][r])
    IN F[Len(packs[i])]

\* C6: draft_complete is broadcast in exactly the steps in which the pack
\* index reaches totalPacks; it lists every seat with its accumulated picks
\* in pick order; and when all packs have the same length every seat has then
\* picked as many cards as it was dealt.
C6_Step ==
    LET done == OfType(outbox', {"draft_complete"})
    IN /\ (Len(done) > 0) <=>
              (isDrafting' /\ packNumber' = totalPacks' /\ packNumber' # packNumber)
       /\ Len(done) > 0 =>
              /\ Len(done) = 1
              /\ done[1].to = "all"
              /\ done[1].payload.players =
                    [i \in 1..Len(players') |->
                        [id |-> players'[i].id, picks |-> players'[i].picks]]
              /\ EqualLengthPacks(unopenedPacks') =>
                    \A i \in 1..Len(players') :
                        /\ i <= Len(unopenedPacks')
                        /\ Len(players'[i].picks) = CardsDealtTo(unopenedPacks', i)
C6_CompleteAtLastPack == [][C6_Step]_vars

\* a three-seat draft of two equal pack rounds has just completed
C6_Witness ==
    /\ Len(OfType(outbox, {"draft_complete"})) = 1
    /\ Len(players) = 3
    /\ totalPacks = 2
    /\ packNumber = 2
    /\ EqualLengthPacks(unopenedPacks)
    /\ \A i \in 1..3 : Len(players[i].picks) = 2 * MaxPackSize

(* ================= properties of the single-player engine ============= *)
\* a step in which confirmPick ran
DPPickStep == pickedCards' # pickedCards

\* the hands of the seats: the human is seat 1, bot k is seat k + 1
DPHands == <<currentPack>> \o botPacks

\* the card seat i took in the step
DPPicked(i) ==
    IF i = 1 THEN pickedCards'[Len(pickedCards')]
    ELSE bots'[i - 1].pickedCards[Len(bots'[i - 1].pickedCards)]

\* the hand of seat i without the card the seat took in the step
DPRemaining(i) == FilterOutId(DPHands[i], DPPicked(i).id)

\* the step ends the pack round: the next pack is opened or the draft is over
DPRoundEnds ==
    DPPickStep /\ (dpPackNumber' # dpPackNumber \/ screen' = "deckbuilder")

\* C7: a pack round of the single-player engine ends only when every seat has
\* made as many picks in the round as the pack has cards (15 draft, 14 play,
\* 12 set), or earlier only if a hand has emptied; at completion the pool of
\* the human holds numberOfPacks x cardsPerPack cards (the generated packs
\* are full size and hold distinct cards).
C7_Step ==
    DPRoundEnds =>
        /\ \/ pickNumber + 1 = CardsPerPack(settings.boosterType)
           \/ \E i \in 1..Len(DPHands) : Len(DPRemaining(i)) = 0
        /\ screen' = "deckbuilder" =>
              Len(draftPicks') = settings.numberOfPacks
                                 * CardsPerPack(settings.boosterType)

C7_RoundExhaustsPacks == [][C7_Step]_vars

\* the step passes the hands on within the pack round
DPPassStep == DPPickStep /\ ~DPRoundEnds

\* C8: on a pass the single-player engine applies the permutation of the
\* rotation rule and of the host engine for the same pack index: with N >= 3
\* seats, seat i receives the remaining hand of seat (i-1) mod N on
\* even-indexed packs and of seat (i+1) mod N on odd-indexed packs.
C8_Step ==
    (DPPassStep /\ Len(DPHands) >= 3) =>
        \A i \in 1..Len(DPHands) :
            DPHands'[i] = DPRemaining(PassSource(i, Len(DPHands), dpPackNumber))

C8_SamePermutationAsHost == [][C8_Step]_vars

(* ===================== host engine: the protocol ====================== *)
\* the names of the seats whose hasPicked flag is false, in seat order
PendingNames(ps) ==
    LET pend == SelectSeq(ps, LAMBDA p : ~p.hasPicked)
    IN [k \in 1..Len(pend) |-> pend[k].name]

Snapshots(msgs) == OfType(msgs, {"draft_state", "host_state"})

\* after the round's last pick: one snapshot per seat, in seat order, with the
\* seat's own new hand and the names of the seats now pending
C9_RoundSnapshots ==
    (PickStep /\ PickCompletesRound) =>
        LET snaps == Snapshots(outbox')
        IN /\ Len(snaps) = Len(players')
           /\ \A i \in 1..Len(players') :
                 /\ snaps[i].to = players'[i].id
                 /\ snaps[i].type =
                       IF players'[i].id = HostId THEN "host_state" ELSE "draft_state"
                 /\ snaps[i].payload.hand = players'[i].currentHand
                 /\ snaps[i].payload.waitingFor = PendingNames(players')

\* the hands after an accepted pick that leaves the round open
C9_OnlyPickerHandChanges ==
    \A j \in 1..Len(players) :
        j # PickSeat => players'[j].currentHand = players[j].currentHand

C9_StatusUpdate ==
    Broadcast("player_status_update", [waitingFor |-> PendingNames(players')])

\* C9 as stated: an accepted pick that leaves the round open produces only a
\* player_status_update with the pending names.
C9_Original_Step ==
    /\ C9_RoundSnapshots
    /\ (PickStep /\ PickAccepted /\ ~PickCompletesRound) =>
          /\ outbox' = <<C9_StatusUpdate>>
          /\ C9_OnlyPickerHandChanges
C9_Original == [][C9_Original_Step]_vars

\* C9: the round's last pick is followed by one snapshot per seat (a
\* draft_state message for a remote seat, a listener call for the host seat)
\* with that seat's new hand and the names of the seats whose flag is false;
\* an accepted pick that leaves the round open produces no snapshot: only a
\* player_status_update with the pending names, preceded by a pick_confirmed
\* to the picker when the picker is a remote seat, and no other seat's hand
\* changes.
C9_Step ==
    /\ C9_RoundSnapshots
    /\ (PickStep /\ PickAccepted /\ ~PickCompletesRound) =>
          /\ outbox' =
                (IF last'.peer = HostId THEN <<>>
                 ELSE <<Msg(last'.peer, "pick_confirmed", [card |-> last'.cardId])>>)
                \o <<C9_StatusUpdate>>
          /\ C9_OnlyPickerHandChanges
C9_BroadcastProtocol == [][C9_Step]_vars

\* a remote seat's pick has just completed a round of three seats, one of
\* them the host: a confirmation and three snapshots went out
C9_Witness ==
    /\ isDrafting
    /\ last.op = "pick"
    /\ last.peer # HostId
    /\ Len(players) = 3
    /\ FindPlayer(players, HostId) # 0
    /\ Len(Snapshots(outbox)) = 3
    /\ Len(OfType(outbox, {"pick_confirmed"})) = 1
    /\ \A i \in 1..3 : ~players[i].hasPicked /\ Len(players[i].currentHand) > 0

\* the largest pack given to startDraft
PackSize(packs) ==
    CHOOSE n \in 0..(MaxPackSize + 1) :
          /\ \A c \in 1..Len(packs) : \A r \in 1..Len(packs[c]) : Len(packs[c][r]) <= n
          /\ \E c \in 1..Len(packs) : \E r \in 1..Len(packs[c]) : Len(packs[c][r]) = n

\* C10: every snapshot the host produces carries a pack counter in
\* 1..totalPacks and a pick counter that does not exceed the pack size;
\* stated for the snapshots of a draft that is still running.
C10_SnapshotCounters ==
    (isDrafting /\ ~Complete) =>
        \A k \in 1..Len(Snapshots(outbox)) :
            LET st == Snapshots(outbox)[k].payload
            IN /\ st.packNumber \in 1..totalPacks
               /\ st.pickNumber \in 1..PackSize(unopenedPacks)

(* ================= host engine: requests and joins ==================== *)
\* a step in which handleRequestState ran
RequestStep == last'.op = "requestState"

\* the seat the request is attributed to
RequestSeat == FindPlayer(players, last'.peer)

\* the snapshot of seat s in the state before the step
SeatSnapshot(s) ==
    [hand       |-> players[s].currentHand,
     packNumber |-> packNumber + 1,
     pickNumber |-> Len(players[s].picks) + 1,
     waitingFor |-> PendingNames(players)]

\* the draft_state messages of the last handler addressed to the peer
CarriedTo(peer) == SelectSeq(outbox, LAMBDA m : m.type = "draft_state" /\ m.to = peer)

\* C11: request_state is read-only and idempotent.  Handling it changes no
\* seat's hand, picks or flag nor the pack index; the only message is a
\* draft_state to the requesting peer carrying the snapshot of its seat in the
\* current state; a request that follows another request of the same peer gets
\* the same reply; a request that follows a broadcast of snapshots gets a
\* snapshot that broadcast carried to the peer; a peer without a seat gets no
\* reply.
C11_Step ==
    RequestStep =>
        /\ players' = players
        /\ packNumber' = packNumber
        /\ unopenedPacks' = unopenedPacks
        /\ isDrafting' = isDrafting
        /\ outbox' = IF RequestSeat = 0 THEN <<>>
                     ELSE <<Msg(last'.peer, "draft_state", SeatSnapshot(RequestSeat))>>
        /\ (last.op = "requestState" /\ last.peer = last'.peer) => outbox' = outbox
        /\ (last.op \in {"pick", "startDraft"} /\ Len(CarriedTo(last'.peer)) > 0) =>
              \E k \in 1..Len(CarriedTo(last'.peer)) :
                  outbox' = <<CarriedTo(last'.peer)[k]>>

C11_RequestStateReadOnly == [][C11_Step]_vars

\* a remote seat asked for its state in the middle of a round: it was sent
\* its hand while another seat had already picked
C11_Witness ==
    /\ isDrafting
    /\ last.op = "requestState"
    /\ last.peer # HostId
    /\ Len(outbox) = 1
    /\ outbox[1].type = "draft_state"
    /\ Len(outbox[1].payload.hand) > 0
    /\ Len(outbox[1].payload.waitingFor) < Len(players)
    /\ FindPlayer(players, last.peer) > 1

(* ================= host engine: delivery order of picks =============== *)
\* seat s of ps with card cardId moved from its hand to its picks
SeatPicked(ps, s, cardId) ==
    LET k == FindIndex(ps[s].currentHand, cardId)
    IN [ps EXCEPT ![s].currentHand = RemoveAt(@, k),
                  ![s].picks = Append(@, ps[s].currentHand[k]),
                  ![s].hasPicked = TRUE]

\* the seats and the pack index after a make_pick of seat s for cardId is
\* handled in st = [players, packNumber]
Delivered(st, s, cardId) ==
    IF st.players[s].hasPicked \/ FindIndex(st.players[s].currentHand, cardId) = 0
    THEN st
    ELSE LET picked == SeatPicked(st.players, s, cardId)
         IN IF \E i \in 1..Len(picked) : ~picked[i].hasPicked
            THEN [players |-> picked, packNumber |-> st.packNumber]
            ELSE IF RoundOver(picked)
                 THEN [players |-> OpenNextPackPlayers(picked, unopenedPacks,
                                                       st.packNumber + 1, totalPacks),
                       packNumber |-> st.packNumber + 1]
                 ELSE [players |-> PassPlayers(picked, st.packNumber),
                       packNumber |-> st.packNumber]

HostState == [players |-> players, packNumber |-> packNumber]

\* seat s has not picked in HostState and holds a card with that id
ValidPick(s, cardId) ==
    /\ ~players[s].hasPicked
    /\ FindIndex(players[s].currentHand, cardId) # 0

\* the picks of two distinct seats lead to the same seats, hands, picks and
\* pack index in both delivery orders
C12_OrderIndependent ==
    \A a, b \in 1..Len(players) :
        \A x \in {players[a].currentHand[k] : k \in 1..Len(players[a].currentHand)} :
            \A y \in {players[b].currentHand[k] : k \in 1..Len(players[b].currentHand)} :
                (a # b /\ ValidPick(a, x) /\ ValidPick(b, y)) =>
                    Delivered(Delivered(HostState, a, x), b, y)
                        = Delivered(Delivered(HostState, b, y), a, x)

\* C12: within a round the state after the rotation does not depend on the
\* order in which the make_pick messages of distinct seats are delivered, and
\* a duplicate or a late copy of a make_pick message is never applied as a
\* second pick.
C12_Step ==
    PickStep =>
        /\ PickSeat # 0 =>
              [players |-> players', packNumber |-> packNumber']
                  = Delivered(HostState, PickSeat, last'.cardId)
        /\ C12_OrderIndependent
        /\ last'.copy => (players' = players /\ packNumber' = packNumber)

C12_OrderAndCopies == [][C12_Step]_vars

\* a step in which handleJoin ran
JoinStep == last'.op = "join"

\* startDraft has run: the packs are stored
DraftStarted == unopenedPacks # <<>>

\* C13: once startDraft has run every join_request is rejected: the seats,
\* their hands, picks and flags and the pack index are unchanged, the only
\* message is an error to the requesting peer, and neither lobby_update nor
\* room_joined is sent.
C13_Step ==
    (JoinStep /\ DraftStarted) =>
        /\ players' = players
        /\ packNumber' = packNumber
        /\ unopenedPacks' = unopenedPacks
        /\ Len(outbox') = 1
        /\ outbox'[1].to = last'.peer
        /\ outbox'[1].type = "error"

C13_JoinAfterStartRejected == [][C13_Step]_vars

\* a peer without a seat asked to join while a round was in progress
C13_Witness ==
    /\ DraftStarted
    /\ last.op = "join"
    /\ FindPlayer(players, last.peer) = 0
    /\ Len(outbox) = 1
    /\ outbox[1].type = "error"
    /\ \E i \in 1..Len(players) : players[i].hasPicked

(* ================= properties of the single-player timer ============== *)
\* the step is a run of the auto-pick effect
AutoStep == autoPicked'

\* the step is a pick the player made
ManualStep == DPPickStep /\ ~autoPicked'

\* the step is the tick at which the countdown of a non-empty hand elapses
ExpiryStep ==
    /\ screen = "draft" /\ screen' = "draft"
    /\ pickedCards' = pickedCards
    /\ timerActive
    /\ settings.pickTimeSeconds > 0
    /\ timeLeft = 1
    /\ timeLeft' = settings.pickTimeSeconds
    /\ Len(currentPack) > 0

\* C14: with a time budget > 0, when the countdown elapses the auto-pick
\* becomes pending and the countdown restarts at the full budget; the
\* auto-pick applies exactly one pick, of the first card of the human's hand,
\* with the effects of a manual pick (every bot with cards picks one, the hands
\* pass or the round advances or the draft completes), and the countdown of the
\* next pick starts at the full budget; with a budget of 0 no auto-pick is ever
\* pending or applied.
C14_Step ==
    /\ ExpiryStep => autoPickTriggered'
    /\ AutoStep =>
          /\ settings.pickTimeSeconds > 0
          /\ autoPickTriggered /\ ~autoPickTriggered'
          /\ pickedCards' = Append(pickedCards, currentPack[1])
          /\ \A i \in 1..Len(bots) :
                Len(bots'[i].pickedCards) = Len(bots[i].pickedCards)
                                            + (IF Len(botPacks[i]) > 0 THEN 1 ELSE 0)
          /\ \/ /\ screen' = "draft"
                /\ dpPackNumber' = dpPackNumber
                /\ pickNumber' = pickNumber + 1
                /\ \A i \in 1..Len(botPacks) : Len(botPacks'[i]) < Len(DPHands[1])
             \/ /\ screen' = "draft"
                /\ dpPackNumber' = dpPackNumber + 1
                /\ pickNumber' = 0
                /\ currentPack' = allBoosters[dpPackNumber' + 1][1]
             \/ /\ screen' = "deckbuilder"
                /\ dpPackNumber + 1 = settings.numberOfPacks
                /\ draftPicks' = pickedCards'
          /\ screen' = "draft" => timeLeft' = settings.pickTimeSeconds
    /\ settings.pickTimeSeconds = 0 => (~autoPicked' /\ ~autoPickTriggered')

C14_AutoPick == [][C14_Step]_vars

\* the countdown of the first pick of the second pack elapsed and the
\* auto-pick was applied: the hands passed and the countdown is full again
C14_Witness ==
    /\ autoPicked
    /\ screen = "draft"
    /\ settings.pickTimeSeconds = PickTime
    /\ dpPackNumber = 1
    /\ pickNumber = 1
    /\ timeLeft = PickTime
    /\ ~autoPickTriggered
    /\ pickedCards[Len(pickedCards)] = allBoosters[2][1][1]

\* C15: a manual pick applied while an auto-pick is pending cancels it: an
\* auto-pick is applied only to the hand of the pick whose countdown expired,
\* never to the hand of a later pick or pack round, and never after the draft
\* has completed or been left.
C15_Step ==
    /\ ManualStep => ~autoPickTriggered'
    /\ AutoStep =>
          /\ screen = "draft"
          /\ expiredAt = <<dpPackNumber, pickNumber>>

C15_ManualPickCancelsAutoPick == [][C15_Step]_vars


(* ======================= properties of the bots ======================= *)
\* a step in which the bot picks from the hand it holds
BotStep == bots' # bots
BotHand == botPacks[1]
BotPrefs == bots[1].colorPreferences
BotChosen == bots'[1].pickedCards[Len(bots'[1].pickedCards)]

\* the documented order: mythic, rare, uncommon, common, then the rest
DocumentedRank(rarity) ==
    CASE rarity = "mythic"   -> 0
      [] rarity = "rare"     -> 1
      [] rarity = "uncommon" -> 2
      [] rarity = "common"   -> 3
      [] OTHER               -> 4

ColorsOf(card) == {card.colors[i] : i \in 1..Len(card.colors)}
PrefSet(colorPreferences) == {colorPreferences[j] : j \in 1..Len(colorPreferences)}
Intersects(card, colorPreferences) ==
    ColorsOf(card) \cap PrefSet(colorPreferences) # {}
OnColorInHand == {k \in 1..Len(BotHand) : Intersects(BotHand[k], BotPrefs)}

\* C16: a bot with no colour preferences, or with no on-colour card in its
\* hand, picks a card of the best rarity present in the hand under the order
\* mythic, rare, uncommon, common, unrecognized; from a hand holding a mythic
\* and a rare it picks the mythic.
C16_Step ==
    (BotStep /\ (BotPrefs = <<>> \/ OnColorInHand = {})) =>
        /\ \E k \in 1..Len(BotHand) : BotHand[k] = BotChosen
        /\ \A k \in 1..Len(BotHand) :
               DocumentedRank(BotChosen.rarity) <= DocumentedRank(BotHand[k].rarity)
        /\ (\E k \in 1..Len(BotHand) : BotHand[k].rarity = "mythic") =>
               BotChosen.rarity = "mythic"
C16_BotRarityRanking == [][C16_Step]_vars

\* C17: once the preferences are non-empty the bot picks the best-rarity card
\* among the cards of its hand whose colours intersect the preferences,
\* whenever there is one, even if an off-colour card of better rarity is in
\* the hand; a bot with no prior picks facing [common green, rare blue] picks
\* the rare blue and then facing [common blue, rare black] picks the common
\* blue.
C17_Step ==
    BotStep =>
        /\ (BotPrefs # <<>> /\ OnColorInHand # {}) =>
               /\ \E k \in OnColorInHand : BotHand[k] = BotChosen
               /\ \A k \in OnColorInHand :
                      DocumentedRank(BotChosen.rarity)
                          <= DocumentedRank(BotHand[k].rarity)
        /\ (bots[1].pickedCards = <<>> /\ BotHand = <<BotPool[1], BotPool[2]>>) =>
               BotChosen = BotPool[2]
        /\ (bots[1].pickedCards = <<BotPool[2]>>
               /\ BotHand = <<BotPool[3], BotPool[4]>>) =>
               BotChosen = BotPool[3]
C17_BotColorLock == [][C17_Step]_vars

\* C18: after each bot pick the colour preferences are the union of the
\* previous preferences and the colours of the picked card, hold no colour
\* twice, keep every colour they held, and are unchanged by a colourless pick
\* or a pick whose colours are all present already.
C18_Step ==
    BotStep =>
        LET new == bots'[1].colorPreferences
        IN /\ PrefSet(new) = PrefSet(BotPrefs) \cup ColorsOf(BotChosen)
           /\ \A j, k \in 1..Len(new) : j # k => new[j] # new[k]
           /\ Len(new) >= Len(BotPrefs)
           /\ SubSeq(new, 1, Len(BotPrefs)) = BotPrefs
           /\ ColorsOf(BotChosen) \subseteq PrefSet(BotPrefs) => new = BotPrefs
C18_BotPreferenceUpdate == [][C18_Step]_vars

\* the bot, preferring blue, has added both colours of a blue-red pick, and
\* an earlier or later pick has left the preferences as they were
C18_Witness ==
    /\ Len(bots[1].pickedCards) = 2
    /\ bots[1].pickedCards[2] = BotPool[5]
    /\ bots[1].pickedCards[1] = BotPool[2]
    /\ bots[1].colorPreferences = <<"U", "R">>


(* =================== properties of the generator ====================== *)
\* occurrences of x in the list s
Occurrences(s, x) == Cardinality({k \in 1..Len(s) : s[k] = x})
Elements(s) == {s[k] : k \in 1..Len(s)}

\* the result is drawn from genCards, from distinct positions when genCards
\* is long enough and with every position used floor(n / |P|) times at
\* least when it is not
DrawnFrom(P, n, result) ==
    /\ Elements(result) \subseteq Elements(P)
    /\ Len(P) >= n =>
           \A x \in Elements(P) : Occurrences(result, x) <= Occurrences(P, x)
    /\ (Len(P) < n /\ Len(P) > 0) =>
           \A x \in Elements(P) :
               Occurrences(result, x) >= (n \div Len(P)) * Occurrences(P, x)

\* C19 as stated: for every list P and every count N a returned result has
\* exactly N elements, all of P, repeated only when P is shorter than the
\* number still needed.
C19_Original ==
    genDone => /\ Len(boosterCards) = genN
               /\ DrawnFrom(genCards, genN, boosterCards)

\* C19: for every non-empty list P and every count N the result of
\* pickRandomN has exactly N elements, all of P, from N distinct positions
\* when |P| >= N and with every position at least floor(N/|P|) times when
\* |P| < N; for the empty list the result is empty.
C19_PickRandomN ==
    genDone =>
        /\ Len(genCards) > 0 => Len(boosterCards) = genN
        /\ Len(genCards) = 0 => boosterCards = <<>>
        /\ DrawnFrom(genCards, genN, boosterCards)

\* a list of three cards asked for four: one whole shuffle and one more card
C19_Witness ==
    /\ genDone
    /\ genCards = <<"a", "b", "c">>
    /\ genN = 4
    /\ boosterCards = <<"b", "c", "a", "c">>


\* the fixed size of a booster of the family
FamilySize(boosterType) ==
    CASE boosterType = "play"  -> 14
      [] boosterType = "draft" -> 15
      [] boosterType = "set"   -> 12

\* C20: for every non-empty card list, down to a single card of any rarity,
\* and every outcome of the random choices, generateBooster returns exactly
\* 14 cards for 'play', 15 for 'draft' and 12 for 'set', none of them
\* undefined.
C20_BoosterLength ==
    (genDone /\ genType \in BoosterTypes) =>
        /\ Len(boosterCards) = FamilySize(genType)
        /\ \A k \in 1..Len(boosterCards) : boosterCards[k].ref # Undefined

\* a set booster made from a single token, which no bucket of the pool holds
C20_Witness ==
    /\ genDone
    /\ genCards = <<GenPool[7]>>
    /\ genType = "set"
    /\ boosterCards = [k \in 1..12 |-> Plain(1)]


\* the pool generateBooster builds from the card list of the call
GenCardPool == BuildCardPool(genCards)

\* generateBooster has returned a booster for a non-empty card list
Returned ==
    genDone /\ genCall = "generateBooster" /\ Len(genCards) > 0 /\ genType # "error"

\* the card references in slots a..b of the booster, and whether the slots
\* hold the card objects themselves
Slots(a, b) == [k \in 1..(b - a + 1) |-> boosterCards[a + k - 1].ref]
AllPlain(a, b) == \A k \in a..b : boosterCards[k] = Plain(boosterCards[k].ref)

\* the bucket asked of safePick and the documented fallback list of each
\* rarity
RequestedBucket(pool, rarity) ==
    CASE rarity = "common"   -> pool.commons
      [] rarity = "uncommon" -> pool.uncommons
      [] rarity = "rare"     -> pool.rares
      [] rarity = "mythic"   -> pool.mythics
      [] rarity = "land"     -> pool.basicLands
DocumentedFallback(pool, rarity) ==
    CASE rarity = "common"   -> Elements(pool.uncommons) \cup Elements(pool.rares)
      [] rarity = "uncommon" -> Elements(pool.commons) \cup Elements(pool.rares)
      [] rarity = "rare"     -> Elements(pool.mythics) \cup Elements(pool.uncommons)
                                    \cup Elements(pool.commons)
      [] rarity = "mythic"   -> Elements(pool.rares) \cup Elements(pool.uncommons)
                                    \cup Elements(pool.commons)
      [] rarity = "land"     -> Elements(pool.commons)

\* s is a list safePick may return for count cards of a rarity: count cards,
\* distinct cards of the bucket when it holds count cards; otherwise every
\* card of the bucket once, followed by a shortfall of cards of the fallback
\* list of the rarity, or of the full list when that fallback list is empty
SafePicked(pool, count, preferredRarity, s) ==
    LET bucket == RequestedBucket(pool, preferredRarity)
        fallback == DocumentedFallback(pool, preferredRarity)
        head == SubSeq(s, 1, Len(bucket))
        shortfall == SubSeq(s, Len(bucket) + 1, Len(s))
    IN /\ Len(s) = count
       /\ Len(bucket) >= count =>
              /\ Elements(s) \subseteq Elements(bucket)
              /\ \A x \in Elements(s) : Occurrences(s, x) = 1
       /\ Len(bucket) < count =>
              /\ \A x \in Elements(bucket) : Occurrences(head, x) = 1
              /\ Elements(shortfall) \subseteq
                     (IF fallback = {} THEN Elements(pool.all) ELSE fallback)

\* the booster is a generic fallback pack of the card list: 9 picks for
\* commons, 3 for uncommons, a rare or mythic pick and a wildcard
IsGenericPack ==
    /\ Len(boosterCards) <= 15
    /\ Len(boosterCards) = 14
    /\ AllPlain(1, 14)
    /\ SafePicked(GenCardPool, 9, "common", Slots(1, 9))
    /\ SafePicked(GenCardPool, 3, "uncommon", Slots(10, 12))
    /\ boosterCards[13].ref \in PickRareOrMythic(GenCardPool)
    /\ boosterCards[14].ref \in 1..Len(genCards)

\* the booster has the 14 slots of a play booster, slot 7 holding a common
\* pick and no slot a card of the bonus sheet
IsPlayPackWithoutList ==
    /\ Len(boosterCards) = 14
    /\ AllPlain(1, 13)
    /\ SafePicked(GenCardPool, 1, "common", Slots(7, 7))
    /\ \A k \in 1..14 : boosterCards[k].ref \in 1..Len(genCards)
    /\ \A k \in 1..14 : ~boosterCards[k].isFromList

\* C21 as stated: for every non-empty card list generateBooster returns a
\* booster; an unrecognized booster type and a failed bonus-sheet fetch both
\* result in the generic fallback pack, which has at most 15 cards and
\* exactly 14.
C21_Original ==
    /\ (genDone /\ genCall = "generateBooster" /\ Len(genCards) > 0) => Returned
    /\ (Returned /\ genType \notin BoosterTypes) => IsGenericPack
    /\ (Returned /\ genType = "play" /\ genFetch = "throws") => IsGenericPack

\* C21 (amended): for every non-empty card list generateBooster returns a
\* booster.  An unrecognized booster type results in the generic fallback
\* pack, which has at most 15 cards and exactly 14.  A failed (or empty)
\* bonus-sheet fetch is handled inside the play generator: the booster is a
\* regular play booster of 14 cards whose slot 7 is a common pick, with no
\* List-flagged card, exactly as when the fetch is not attempted.
C21_GracefulDegradation ==
    /\ (genDone /\ genCall = "generateBooster" /\ Len(genCards) > 0) => Returned
    /\ (Returned /\ genType \notin BoosterTypes) => IsGenericPack
    /\ (Returned /\ genType = "play" /\ genFetch \in {"throws", "empty"}) =>
          IsPlayPackWithoutList

\* a play booster generated while the bonus-sheet fetch throws: it ends with
\* the foil copy of the play layout, which no generic pack holds
C21_Witness ==
    /\ Returned
    /\ genType = "play"
    /\ genFetch = "throws"
    /\ Len(boosterCards) = 14
    /\ boosterCards[14].isFoil
    /\ ~IsGenericPack

\* a generic pack produced for an unrecognized booster type
C21_WitnessGeneric ==
    /\ Returned
    /\ genType = OtherType
    /\ IsGenericPack


\* no booster has been produced by the call
NoBooster ==
    /\ boosterCards = <<>>
    /\ roundBoosters = <<>>
    /\ draftBoosters = <<>>

\* C22: when the card list of the set is empty, generateBooster and
\* generateDraftBoosters end with an error and no booster is produced at any
\* point of the call; a call that got a non-empty card list never ends
\* with an error.
C22_FatalEmptySet ==
    setFetch = "cards" =>
        /\ Len(genCards) = 0 => NoBooster
        /\ genDone => (genType = "error" <=> Len(genCards) = 0)
        /\ (genDone /\ genType = "error") => NoBooster

\* generateDraftBoosters has thrown for an empty set although packs for two
\* rounds and two players were asked for
C22_Witness ==
    /\ genDone
    /\ genCall = "generateDraftBoosters"
    /\ setFetch = "cards"
    /\ genCards = <<>>
    /\ genArgs = [numberOfPacks |-> 2, numberOfPlayers |-> 2]
    /\ genType = "error"
    /\ NoBooster

\* generateBooster has thrown for an empty list
C22_WitnessBooster ==
    /\ genDone
    /\ genCall = "generateBooster"
    /\ genCards = <<>>
    /\ genType = "error"

\* generateDraftBoosters has returned the packs of a non-empty set
C22_WitnessPacks ==
    /\ genDone
    /\ genCall = "generateDraftBoosters"
    /\ Len(genCards) > 0
    /\ Len(draftBoosters) = 2
    /\ Len(draftBoosters[2]) = 2


\* the six buckets of a pool and how often a card object occurs in one
BucketNames == {"commons", "uncommons", "rares", "mythics", "basicLands", "variants"}
InBucket(pool, name, ref) == Occurrences(pool[name], ref)

\* the documented rules, the first matching one deciding: token or art
\* layout (discard), basic land, pure promo (discard), not booster-eligible
\* with a special-frame marker (variants), not booster-eligible (discard),
\* rarity (other rarities dropped)
DocumentedBucket(card) ==
    CASE card.layout \in {"token", "art_series"} -> "discard"
      [] OTHER ->
    CASE card.basicLand -> "basicLands"
      [] OTHER ->
    CASE card.promo -> "discard"
      [] OTHER ->
    CASE ~card.booster /\ card.showcase -> "variants"
      [] OTHER ->
    CASE ~card.booster -> "discard"
      [] OTHER ->
    CASE card.rarity = "common"   -> "commons"
      [] card.rarity = "uncommon" -> "uncommons"
      [] card.rarity = "rare"     -> "rares"
      [] card.rarity = "mythic"   -> "mythics"
      [] OTHER                    -> "discard"

\* C23: after buildCardPool every input card is in at most one of the six
\* buckets, the one the first matching documented rule names and there
\* exactly once, in no bucket when that rule discards it; pool.all is the
\* unfiltered input list.
C23_Classification ==
    (genDone /\ genCall = "buildCardPool") =>
        /\ \A i \in 1..Len(genCards) :
              /\ Cardinality({b \in BucketNames : InBucket(cardPool, b, i) > 0}) <= 1
              /\ \A b \in BucketNames :
                    InBucket(cardPool, b, i) =
                        IF DocumentedBucket(genCards[i]) = b THEN 1 ELSE 0
        /\ \A b \in BucketNames : Elements(cardPool[b]) \subseteq 1..Len(genCards)
        /\ cardPool.all = [i \in 1..Len(genCards) |-> i]
        /\ cardPool.objects = genCards

\* a promo printing of a basic land, not booster-eligible and with a
\* special frame, is a basic land: the second rule decides before the
\* third and the fourth
C23_Witness ==
    /\ genDone
    /\ genCall = "buildCardPool"
    /\ Len(genCards) = 1
    /\ genCards[1].layout = "normal"
    /\ genCards[1].basicLand /\ genCards[1].promo
    /\ ~genCards[1].booster /\ genCards[1].showcase
    /\ cardPool.basicLands = <<1>>
    /\ cardPool.variants = <<>>
    /\ cardPool.all = <<1>>

\* C24: after buildCardPool foilOnly holds exactly the input cards whose
\* finishes include foil and not nonfoil, each once and in input order,
\* whatever bucket the card is in and also when it is in none.
C24_FoilOnly ==
    (genDone /\ genCall = "buildCardPool") =>
        /\ \A i \in 1..Len(genCards) :
              Occurrences(cardPool.foilOnly, i) =
                  IF "foil" \in genCards[i].finishes
                        /\ "nonfoil" \notin genCards[i].finishes
                  THEN 1 ELSE 0
        /\ Elements(cardPool.foilOnly) \subseteq 1..Len(genCards)
        /\ \A j, k \in 1..Len(cardPool.foilOnly) :
              j < k => cardPool.foilOnly[j] < cardPool.foilOnly[k]

\* a foil-only token: in no bucket, yet tagged foilOnly
C24_Witness ==
    /\ genDone
    /\ genCall = "buildCardPool"
    /\ Len(genCards) = 1
    /\ genCards[1].layout = "token"
    /\ genCards[1].finishes = {"foil"}
    /\ \A b \in BucketNames : cardPool[b] = <<>>
    /\ cardPool.foilOnly = <<1>>


\* C25: for every pool with a non-empty full list and every count >= 0
\* safePick returns exactly count cards: distinct cards of the requested
\* bucket when it holds at least count cards; otherwise every card of the
\* bucket once and a shortfall drawn only from the fallback list of the
\* rarity, from the full list only when that fallback list is empty.
C25_SafePick ==
    (genDone /\ genCall = "safePick" /\ Len(genCards) > 0) =>
        /\ Len(boosterCards) = genN
        /\ Elements(boosterCards) \subseteq 1..Len(genCards)
        /\ SafePicked(GenCardPool, genN, genType, boosterCards)

\* four commons asked of a pool of two commons and a rare: both commons,
\* then the rare twice
C25_Witness ==
    /\ genDone
    /\ genCall = "safePick"
    /\ genCards = <<GenPool[1], GenPool[1], GenPool[3]>>
    /\ genType = "common"
    /\ genN = 4
    /\ boosterCards = <<2, 1, 3, 3>>

\* the shortfall of a pool without adjacent rarities comes from the full list
C25_WitnessFullList ==
    /\ genDone
    /\ genCall = "safePick"
    /\ genCards = <<GenPool[4], GenPool[7]>>
    /\ genType = "common"
    /\ genN = 2
    /\ boosterCards = <<2, 1>>

\* C27: pickRareOrMythic returns a card of rares or mythics whenever one of
\* them is non-empty, a rare when mythics is empty and a mythic when rares
\* is empty; only with both empty a card of the uncommon fallback chain
\* (uncommons, else commons, else the full list); never undefined for a
\* non-empty full list.
C27_RareOrMythic ==
    (genDone /\ genCall = "pickRareOrMythic" /\ Len(genCards) > 0) =>
        LET pool == GenCardPool
            card == boosterCards[1]
            rares == Elements(pool.rares)
            mythics == Elements(pool.mythics)
        IN /\ Len(boosterCards) = 1
           /\ card # Undefined
           /\ card \in 1..Len(genCards)
           /\ (rares \cup mythics # {}) => card \in rares \cup mythics
           /\ (rares # {} /\ mythics = {}) => card \in rares
           /\ (mythics # {} /\ rares = {}) => card \in mythics
           /\ (rares \cup mythics = {}) =>
                 card \in (IF pool.uncommons # <<>> THEN Elements(pool.uncommons)
                           ELSE IF pool.commons # <<>> THEN Elements(pool.commons)
                           ELSE Elements(pool.all))

\* a mythic picked from a pool without a rare
C27_Witness ==
    /\ genDone
    /\ genCall = "pickRareOrMythic"
    /\ genCards = <<GenPool[1], GenPool[2], GenPool[4]>>
    /\ boosterCards = <<3>>

\* an uncommon picked from a pool without rares and mythics
C27_WitnessFallback ==
    /\ genDone
    /\ genCall = "pickRareOrMythic"
    /\ genCards = <<GenPool[1], GenPool[2]>>
    /\ boosterCards = <<2>>


\* the cards of the list that have a foil finish, and those that have no
\* other finish
FoilCapable == {i \in 1..Len(genCards) : "foil" \in genCards[i].finishes}
FoilOnlyCards == {i \in FoilCapable : "nonfoil" \notin genCards[i].finishes}

\* the entry is a wildcard pick put in a slot as it is
IsWildcardPick(entry) ==
    /\ entry = Plain(entry.ref)
    /\ entry.ref \in PickWildcard(GenCardPool)

\* C26: pickFoilCard returns no card exactly when no card of the pool has a
\* foil finish; a card it returns carries the foil flag and is a card with a
\* foil finish; with exactly one foil-only card and no other card with a
\* foil finish it returns that card flagged foil on every outcome.  When no
\* card has a foil finish the foil slot of a play booster (slot 14) and of a
\* set booster (slot 10, when the roll asks for a foil) holds a wildcard
\* pick; otherwise the foil slot of a play booster holds a flagged card.
C26_FoilPick ==
    /\ (genDone /\ genCall = "pickFoilCard") =>
          /\ boosterCards = <<>> <=> FoilCapable = {}
          /\ boosterCards # <<>> =>
                /\ Len(boosterCards) = 1
                /\ boosterCards[1].isFoil
                /\ boosterCards[1].ref \in FoilCapable
          /\ (Cardinality(FoilOnlyCards) = 1 /\ FoilCapable = FoilOnlyCards) =>
                \E i \in FoilOnlyCards : boosterCards = <<FoilCopy(i)>>
    /\ (Returned /\ genType = "play") =>
          IF FoilCapable = {} THEN IsWildcardPick(boosterCards[14])
          ELSE /\ boosterCards[14].isFoil
               /\ boosterCards[14].ref \in FoilCapable
    /\ (Returned /\ genType = "set") =>
          IF FoilCapable = {}
          THEN \/ IsWildcardPick(boosterCards[10])
               \/ /\ boosterCards[10] = Plain(boosterCards[10].ref)
                  /\ boosterCards[10].ref \in PickRareOrMythic(GenCardPool)
          ELSE boosterCards[10].isFoil => boosterCards[10].ref \in FoilCapable

\* the sole foil-only card of a pool with no other foil-capable card,
\* returned flagged foil
C26_Witness ==
    /\ genDone
    /\ genCall = "pickFoilCard"
    /\ genCards = <<GenPool[2], GenPool[6]>>
    /\ boosterCards = <<FoilCopy(2)>>

\* no card returned for a pool without a foil finish
C26_WitnessNull ==
    /\ genDone
    /\ genCall = "pickFoilCard"
    /\ genCards = <<GenPool[2], GenPool[3]>>
    /\ boosterCards = <<>>

\* a play booster of a pool without a foil finish: a wildcard in slot 14
C26_WitnessWildcard ==
    /\ Returned
    /\ genType = "play"
    /\ genCards = <<GenPool[2], GenPool[3]>>
    /\ boosterCards[14] = Plain(1)


\* the entries of every booster produced so far
BoosterEntries ==
    LET Of(cards) == {cards[k] : k \in 1..Len(cards)}
    IN (IF genCall = "generateBooster" THEN Of(boosterCards) ELSE {})
       \cup UNION {Of(roundBoosters[q].cards) : q \in 1..Len(roundBoosters)}
       \cup UNION {Of(draftBoosters[p][q].cards) :
                      p \in 1..Len(draftBoosters), q \in 1..genArgs.numberOfPlayers}

\* C28: whatever number of boosters has been generated, no card object of
\* the input list carries a foil or List flag: an entry of a booster that is
\* a card object of the list (not a copy) is unflagged, and a flagged entry
\* is a distinct copy; the card list itself is as it was passed in.
C28_CardsNotMutated ==
    /\ \A e \in BoosterEntries :
          /\ ~e.copy => (~e.isFoil /\ ~e.isFromList /\ e.ref \in 1..Len(genCards))
          /\ (e.isFoil \/ e.isFromList) => e.copy
    /\ \A i \in 1..Len(genCards) :
          DOMAIN genCards[i] = DOMAIN GenPool[1]

\* two play boosters of one round from a single foil-capable common: the
\* card is a foil copy in slot 14 of the first booster and the unflagged
\* card object in slot 1 of both, next to a List copy in slot 7
C28_Witness ==
    /\ genCall = "generateDraftBoosters"
    /\ genCards = <<GenPool[1]>>
    /\ genType = "play"
    /\ Len(draftBoosters) >= 1
    /\ Len(draftBoosters[1]) = 2
    /\ draftBoosters[1][1].cards[14] = FoilCopy(1)
    /\ draftBoosters[1][1].cards[7] = ListCopy(ListCard)
    /\ draftBoosters[1][1].cards[1] = Plain(1)
    /\ draftBoosters[1][2].cards[1] = Plain(1)


\* slots a..b of the booster hold distinct cards of the bucket
DistinctOf(a, b, bucket) ==
    /\ \A k \in a..b : boosterCards[k].ref \in Elements(bucket)
    /\ \A j, k \in a..b : j # k => boosterCards[j].ref # boosterCards[k].ref

\* C29: for a pool with at least 10 commons, 3 uncommons and a rare or a
\* mythic, every draft booster is, in order, 10 distinct commons, 3 distinct
\* uncommons, one card of rares or mythics and one basic land, or a common
\* in the last slot when the pool has no basic land; no entry is flagged
\* foil or List.
C29_FamilyB ==
    LET pool == GenCardPool
    IN (/\ Returned
        /\ genType = "draft"
        /\ Len(pool.commons) >= 10
        /\ Len(pool.uncommons) >= 3
        /\ Len(pool.rares) + Len(pool.mythics) >= 1) =>
           /\ Len(boosterCards) = 15
           /\ DistinctOf(1, 10, pool.commons)
           /\ DistinctOf(11, 13, pool.uncommons)
           /\ boosterCards[14].ref \in Elements(pool.rares) \cup Elements(pool.mythics)
           /\ boosterCards[15].ref \in
                 (IF Len(pool.basicLands) >= 1 THEN Elements(pool.basicLands)
                  ELSE Elements(pool.commons))
           /\ \A k \in 1..15 :
                 /\ ~boosterCards[k].isFoil
                 /\ ~boosterCards[k].isFromList
                 /\ ~boosterCards[k].copy

\* a draft booster of 11 commons, 3 uncommons, a rare and a basic land
C29_Witness ==
    /\ Returned
    /\ genType = "draft"
    /\ genCards = Copies(1, 11) \o Copies(2, 3) \o Copies(3, 1) \o Copies(5, 1)
    /\ Slots(1, 10) = <<2, 3, 4, 5, 6, 7, 8, 9, 10, 11>>
    /\ boosterCards[14] = Plain(15)
    /\ boosterCards[15] = Plain(16)

\* without a basic land the last slot is a common
C29_WitnessNoLand ==
    /\ Returned
    /\ genType = "draft"
    /\ genCards = Copies(1, 10) \o Copies(2, 3) \o Copies(4, 1)
    /\ boosterCards[14] = Plain(14)
    /\ boosterCards[15] = Plain(3)


\* what the layouts of a play booster have in common: slots 1-6 are common
\* picks, slot 7 a common pick or a List card, slots 8-10 uncommon picks,
\* slot 11 the rare or mythic; at most one entry is flagged List and at
\* most one foil
PlaySlots1To11 ==
    LET pool == GenCardPool
    IN /\ Len(boosterCards) = 14
       /\ AllPlain(1, 6)
       /\ SafePicked(pool, 6, "common", Slots(1, 6))
       /\ \/ boosterCards[7] = ListCopy(ListCard)
          \/ /\ AllPlain(7, 7)
             /\ SafePicked(pool, 1, "common", Slots(7, 7))
       /\ AllPlain(8, 11)
       /\ SafePicked(pool, 3, "uncommon", Slots(8, 10))
       /\ (Len(pool.rares) + Len(pool.mythics) > 0) =>
              boosterCards[11].ref \in Elements(pool.rares) \cup Elements(pool.mythics)
       /\ Cardinality({k \in 1..14 : boosterCards[k].isFromList}) <= 1
       /\ Cardinality({k \in 1..14 : boosterCards[k].isFoil}) <= 1

\* slot k is the basic land (a common pick when the pool has no basic land)
IsLandSlot(k) ==
    /\ AllPlain(k, k)
    /\ IF Len(GenCardPool.basicLands) > 0
       THEN boosterCards[k].ref \in Elements(GenCardPool.basicLands)
       ELSE SafePicked(GenCardPool, 1, "common", Slots(k, k))

\* slot k is the non-foil wildcard: a card object of the list, unflagged
IsNonFoilWildcard(k) ==
    /\ AllPlain(k, k)
    /\ boosterCards[k].ref \in 1..Len(genCards)

\* slot k is the foil wildcard: a foil copy of a card with a foil finish
\* when there is one, a second non-foil wildcard otherwise
IsFoilWildcard(k) ==
    IF FoilCapable # {}
    THEN /\ boosterCards[k].isFoil
         /\ boosterCards[k].copy
         /\ boosterCards[k].ref \in FoilCapable
    ELSE IsNonFoilWildcard(k)

Eligible ==
    UNION {Elements(GenCardPool[b]) : b \in BucketNames}

\* C39: every card of a booster returned by generateBooster is a List card
\* or a card buildCardPool placed in one of commons, uncommons, rares,
\* mythics, basicLands, variants; a card it discarded is in no slot.
C39_OnlyEligibleCards ==
    Returned =>
        \A k \in 1..Len(boosterCards) :
            \/ boosterCards[k].isFromList
            \/ boosterCards[k].ref \in Eligible

\* a play booster of an uncommon and a token with a foil finish: every slot
\* holds the uncommon except the foil slot, which holds a copy of the token
C39_DiscardedInFoilSlot ==
    /\ Returned
    /\ genType = "play"
    /\ genCards = <<GenPool[2], GenPool[7]>>
    /\ \A k \in 1..13 : boosterCards[k] = Plain(1)
    /\ boosterCards[14] = FoilCopy(2)


\* the cards of the bonus sheet released within six months of the date
DateFiltered ==
    SelectSeq(genCards, LAMBDA card : /\ card.released_at # 0
                                      /\ card.released_at >= genN - 180
                                      /\ card.released_at <= genN + 180)

\* C31: fetchListCards with a release date returns the date-filtered subset
\* whenever it holds at least 50 cards, and the unfiltered bonus sheet only
\* when the subset holds fewer than 50 cards.
C31_ListDateFilter ==
    (genDone /\ genCall = "fetchListCards" /\ genN # 0) =>
        /\ Len(DateFiltered) >= 50 => boosterCards = DateFiltered
        /\ Len(DateFiltered) < 50 => boosterCards = genCards

\* a sheet whose filtered subset holds exactly 50 cards comes back unfiltered
C31_FiftyUnfiltered ==
    /\ genDone
    /\ genCall = "fetchListCards"
    /\ genN = TargetDay
    /\ Len(DateFiltered) = 50
    /\ Len(genCards) = 51
    /\ boosterCards = genCards


(* ------------------------- seats and rounds --------------------------- *)
\* C32: no two entries of the host's seat list have the same peer id; a
\* join_request of a peer that already has a seat adds no second seat
C32_SeatIdentity ==
    \A i, j \in 1..Len(players) : players[i].id = players[j].id => i = j

\* the seat list after a second join_request of g1 before the start
C32_TwoSeatsOfOnePeer ==
    /\ ~isDrafting
    /\ last.op = "join" /\ last.peer = "g1"
    /\ Len(players) = 3
    /\ players[2].id = "g1" /\ players[3].id = "g1"


\* C33: every seat of the seat list has a column of packs once startDraft
\* has run, and startDraft deals every seat a non-empty hand, also when a
\* join_request arrives while the packs are being generated
C33_JoinDuringGeneration ==
    isDrafting =>
        /\ \A i \in 1..Len(players) :
              /\ i <= Len(unopenedPacks)
              /\ Len(unopenedPacks[i]) = totalPacks
        /\ last.op = "startDraft" =>
              \A i \in 1..Len(players) : Len(players[i].currentHand) > 0

\* g1 joined between handleLobbyStart and startDraft: one column of packs
\* for two seats, the seat of g1 starts without a hand
C33_SeatWithoutPacks ==
    /\ isDrafting /\ last.op = "startDraft"
    /\ genFor = 1 /\ Len(unopenedPacks) = 1
    /\ Len(players) = 2 /\ players[2].id = "g1"
    /\ Len(players[1].currentHand) > 0
    /\ players[2].currentHand = <<>>


\* C34: after startDraft all seats whose hasPicked flag is clear have made
\* the same number k of picks and all seats whose flag is set have made
\* k + 1, so pick counts differ by at most one and no seat picks twice in a
\* round before every seat has picked
C34_RoundBarrier ==
    (isDrafting /\ Len(players) > 0) =>
        \E k \in 0..(MaxPacks * MaxPackSize + 1) :
            \A i \in 1..Len(players) :
                Len(players[i].picks) = (IF players[i].hasPicked THEN k + 1 ELSE k)

\* in the second step of a round one seat has picked twice, another once
C34_Witness ==
    /\ isDrafting /\ last.op = "pick"
    /\ Len(players) >= 2
    /\ \E i, j \in 1..Len(players) :
          /\ players[i].hasPicked /\ Len(players[i].picks) = 2
          /\ ~players[j].hasPicked /\ Len(players[j].picks) = 1


\* C35: once the draft has completed, no make_pick, host pick or
\* request_state changes a seat's hand or picks or the pack index, and
\* draft_complete has been broadcast exactly once and is not broadcast again
C35_Step ==
    (isDrafting /\ packNumber >= totalPacks) =>
        /\ completeCount = 1
        /\ completeCount' = completeCount
        /\ \A k \in 1..Len(outbox') : outbox'[k].type # "draft_complete"
        /\ packNumber' = packNumber
        /\ Len(players') = Len(players)
        /\ \A i \in 1..Len(players) :
              /\ players'[i].currentHand = players[i].currentHand
              /\ players'[i].picks = players[i].picks

C35_TerminalAbsorbing == [][C35_Step]_vars

\* after completion a seat that still holds a card asked for it and was
\* turned down
C35_Witness ==
    /\ isDrafting /\ packNumber >= totalPacks
    /\ completeCount = 1
    /\ last.op = "pick" /\ ~last.copy
    /\ outbox = <<>>
    /\ \E i \in 1..Len(players) :
          /\ players[i].id = last.peer
          /\ Len(players[i].currentHand) > 0
          /\ players[i].currentHand[1] = last.cardId


(* ----------------------- completion and privacy ----------------------- *)
\* the message is delivered to the seat of that peer: a broadcast goes to
\* the open connections, that is to the remote peers, a listener call to the
\* host's own seat
DeliveredTo(m, id) ==
    \/ m.to = id
    \/ m.to = "all" /\ id # HostId

\* C36: when the host completes the draft, the completion event goes to
\* every seat, the host's own seat included, and carries that seat's final
\* picks
C36_CompletionReachesEverySeat ==
    (\E k \in 1..Len(outbox) : outbox[k].type = "draft_complete") =>
        \A i \in 1..Len(players) :
            \E k \in 1..Len(outbox) :
                /\ outbox[k].type = "draft_complete"
                /\ DeliveredTo(outbox[k], players[i].id)
                /\ \E j \in 1..Len(outbox[k].payload.players) :
                      /\ outbox[k].payload.players[j].id = players[i].id
                      /\ outbox[k].payload.players[j].picks = players[i].picks

\* the draft of the host and g1 completes: g1 is sent its picks, nothing
\* tells the host's seat that the draft is over
C36_HostNotTold ==
    /\ isDrafting /\ packNumber >= totalPacks
    /\ Len(players) = 2 /\ players[1].id = HostId /\ players[2].id = "g1"
    /\ \E k \in 1..Len(outbox) :
          /\ outbox[k].type = "draft_complete"
          /\ outbox[k].to = "all"
          /\ outbox[k].payload.players[2].picks = players[2].picks
    /\ \A k \in 1..Len(outbox) :
          outbox[k].to = HostId => outbox[k].type = "host_state"


(* ------------------- pick granularity of confirmPick ------------------ *)
\* cards of all the hands of the table
CardsInHands(human, botHands) ==
    LET F[i \in 0..Len(botHands)] ==
            IF i = 0 THEN Len(human) ELSE F[i - 1] + Len(botHands[i])
    IN F[Len(botHands)]

\* bots that hold a card
BotsWithCards == {i \in 1..Len(botPacks) : Len(botPacks[i]) > 0}

\* C37: every confirmPick appends exactly one card to the picks of the human
\* and of every bot with a non-empty hand, and while the round goes on it
\* removes exactly one card from each of these hands, also when a hand
\* holds two cards with the same id
C37_Step ==
    (screen = "draft" /\ pickedCards' # pickedCards) =>
        /\ Len(pickedCards') = Len(pickedCards) + 1
        /\ \A i \in 1..Len(bots) :
              Len(bots'[i].pickedCards) =
                 Len(bots[i].pickedCards) + (IF i \in BotsWithCards THEN 1 ELSE 0)
        /\ (screen' = "draft" /\ dpPackNumber' = dpPackNumber) =>
              CardsInHands(currentPack', botPacks') =
                 CardsInHands(currentPack, botPacks) - (1 + Cardinality(BotsWithCards))

C37_PickGranularity == [][C37_Step]_vars

\* the human took the first card of a play booster whose foil slot holds
\* the same printing: 12 of the 14 cards went on to the next seat
C37_BothCopiesGone ==
    /\ screen = "draft" /\ settings.boosterType = "play"
    /\ dpPackNumber = 0 /\ pickNumber = 1
    /\ allBoosters[1][1][14].id = allBoosters[1][1][1].id
    /\ pickedCards = <<allBoosters[1][1][1]>>
    /\ Len(botPacks[Len(botPacks)]) = 12


\* the public view of the seats: ids, names and flags, no cards
SeatsOnly(list) ==
    \A j \in 1..Len(list) : DOMAIN list[j] = {"id", "name", "hasPicked"}

\* what a message of the host shows of the cards of the table
ShowsOwnCardsOnly(m) ==
    \/ m.to = HostId
    \/ /\ m.type = "draft_state"
       /\ m.to \in Guests
       /\ \E i \in 1..Len(players) :
             /\ players[i].id = m.to
             /\ m.payload.hand = players[i].currentHand
    \/ /\ m.type = "pick_confirmed"
       /\ m.to \in Guests
       /\ DOMAIN m.payload = {"card"}
       /\ \E i \in 1..Len(players) :
             /\ players[i].id = m.to
             /\ Len(players[i].picks) > 0
             /\ m.payload.card = players[i].picks[Len(players[i].picks)]
    \/ /\ m.type = "player_status_update"
       /\ DOMAIN m.payload = {"waitingFor"}
       /\ \A j \in 1..Len(m.payload.waitingFor) :
             \E i \in 1..Len(players) : m.payload.waitingFor[j] = players[i].name
    \/ /\ m.type = "lobby_update"
       /\ DOMAIN m.payload = {"players"}
       /\ SeatsOnly(m.payload.players)
    \/ /\ m.type = "room_joined"
       /\ DOMAIN m.payload = {"playerId", "players"}
       /\ SeatsOnly(m.payload.players)
    \/ /\ m.type = "draft_started"
       /\ DOMAIN m.payload = {"totalPacks", "players"}
       /\ SeatsOnly(m.payload.players)
    \/ /\ m.type = "error"
       /\ DOMAIN m.payload = {"message"}

\* C38: before completion the only card contents the host sends to a remote
\* seat are that seat's own current hand (draft_state) and its own picked
\* card (pick_confirmed); status, lobby and start messages carry seat
\* names and flags only
C38_HandConfidentiality ==
    \A k \in 1..Len(outbox) :
        outbox[k].type # "draft_complete" => ShowsOwnCardsOnly(outbox[k])

\* g1 is confirmed its pick and sent its new hand while the host's seat
\* holds another hand
C38_Witness ==
    /\ isDrafting /\ packNumber < totalPacks
    /\ last.op = "pick" /\ last.peer = "g1"
    /\ Len(players) >= 2 /\ players[1].id = HostId
    /\ \E a, b \in 1..Len(outbox) :
          /\ outbox[a].type = "pick_confirmed" /\ outbox[a].to = "g1"
          /\ outbox[b].type = "draft_state" /\ outbox[b].to = "g1"
          /\ Len(outbox[b].payload.hand) > 0
          /\ Len(players[1].currentHand) > 0
          /\ outbox[b].payload.hand # players[1].currentHand

=============================================================================
